---- MODULE Spec2Model ----
(***************************************************************************)
(* State-machine model of src/services/GeofenceService.ts: the zone        *)
(* catalogue, the zone state store, the event log, the background geofence *)
(* task, the initial position check, the foreground location handler and   *)
(* startGeofencing / stopGeofencing.  Every await of the source is one     *)
(* atomic step; the three handlers interleave at their awaits.             *)
(***************************************************************************)
EXTENDS Integers, Sequences, FiniteSets, TLC

(***************************************************************************)
(* Bounds of the exploration (not program constants).                      *)
(***************************************************************************)
\* a new call may begin only while fewer than MaxLog entries were appended
MaxLog == 3
\* a new call may begin only while the logical clock is below MaxClock
MaxClock == 3
\* at most MaxOverlap calls may begin while another call is in flight
MaxOverlap == 1
\* at most MaxFaults collaborator calls fail
MaxFaults == 1

\* at most MaxAlerts alert contents are composed on their own
MaxAlerts == 2

\* at most MaxDispatch alerts are dispatched on their own
MaxDispatch == 1

(***************************************************************************)
(* Zone catalogue (TEST_GEOFENCES).  Coordinates are in 1e-4 degrees.      *)
(***************************************************************************)
TEST_GEOFENCES ==
  << [identifier |-> "flood-derby-center", type |-> "FLOOD", severity |-> "HIGH",
      latitude |-> 529225, longitude |-> -14746, radius |-> 1000,
      description |-> "Derby City Centre - High Flood Risk Zone"],
     [identifier |-> "evacuation-zone-north", type |-> "EVACUATION", severity |-> "CRITICAL",
      latitude |-> 529300, longitude |-> -14800, radius |-> 800,
      description |-> "North Derby - Mandatory Evacuation Zone"],
     [identifier |-> "fire-risk-west", type |-> "FIRE", severity |-> "WARNING",
      latitude |-> 529180, longitude |-> -14900, radius |-> 800,
      description |-> "West Derby - Wildfire Risk Area"],
     [identifier |-> "storm-warning-east", type |-> "STORM", severity |-> "WARNING",
      latitude |-> 529250, longitude |-> -14600, radius |-> 1000,
      description |-> "East Derby - Severe Storm Warning"] >>

NumZones == Len(TEST_GEOFENCES)

ZoneIds == { TEST_GEOFENCES[k].identifier : k \in 1..NumZones }

\* a region identifier the platform may report that is not in the catalogue
UnknownId == "removed-zone"

\* positions the positioning service reports (1e-4 degrees):
\* outside every zone; inside fire+flood; inside flood+storm
Points ==
  << [latitude |-> 529000, longitude |-> -14405],
     [latitude |-> 529195, longitude |-> -14835],
     [latitude |-> 529220, longitude |-> -14665] >>

PointIds == 1..Len(Points)

\* positions due north of the centre of storm-warning-east (radius 1000 m),
\* clear of the other zones: 500 m from the centre; at the radius; 11 m beyond it
ProbePoints ==
  << [latitude |-> 529295, longitude |-> -14600],
     [latitude |-> 529340, longitude |-> -14600],
     [latitude |-> 529341, longitude |-> -14600] >>

AllPoints == Points \o ProbePoints

ProbeIds == (Len(Points) + 1)..Len(AllPoints)

(***************************************************************************)
(* calculateDistance: the haversine distance in whole metres, computed in  *)
(* integer arithmetic.  For the catalogue's extent (a few kilometres) the  *)
(* source's sin(x/2)^2 is (x/2)^2 and 2*atan2(sqrt a, sqrt(1-a)) is        *)
(* 2*sqrt a to well below a metre, so the distance is                      *)
(*   R * toRad(1) * sqrt(dLat^2 + cos(lat1)*cos(lat2)*dLon^2).             *)
(***************************************************************************)
RECURSIVE SqrtIter(_, _, _)
SqrtIter(n, lo, hi) ==
  IF lo >= hi THEN lo
  ELSE LET mid == (lo + hi + 1) \div 2
       IN IF mid * mid <= n THEN SqrtIter(n, mid, hi) ELSE SqrtIter(n, lo, mid - 1)

\* Math.sqrt on naturals, rounded down
Sqrt(n) == SqrtIter(n, 0, 46340)

\* Math.cos(toRad(lat)) scaled by 10^4, lat in 1e-4 degrees (Taylor series)
Cos4(lat) ==
  LET x  == (lat * 1745) \div 100000
      t2 == (x * x) \div 10000
      t4 == (t2 * t2) \div 10000
      t6 == (t4 * t2) \div 10000
  IN 10000 - (t2 \div 2) + (t4 \div 24) - (t6 \div 720)

calculateDistance(lat1, lon1, lat2, lon2) ==
  LET dLat == lat2 - lat1
      dLon == lon2 - lon1
      cc   == (Cos4(lat1) * Cos4(lat2)) \div 10000
      a    == dLat * dLat + (cc * dLon * dLon) \div 10000
  IN (111195 * Sqrt(100 * a)) \div 100000

\* containment that leaves the boundary out
isInside_Strict(geofence, location) ==
  calculateDistance(location.latitude, location.longitude,
                    geofence.latitude, geofence.longitude) < geofence.radius

\* const isInside = distance <= geofence.radius
isInside(geofence, location) ==
  calculateDistance(location.latitude, location.longitude,
                    geofence.latitude, geofence.longitude) <= geofence.radius

\* containment of every point in every catalogue zone, evaluated once
InsideTable ==
  [p \in 1..Len(AllPoints) |->
     [k \in 1..NumZones |-> isInside(TEST_GEOFENCES[k], AllPoints[p])]]

(***************************************************************************)
(* getDisasterAlertContent: the content of an alert.                       *)
(***************************************************************************)
EntryTitle ==
  [FLOOD |-> [INFO |-> "Flood Information", WARNING |-> "Flood Warning",
              HIGH |-> "HIGH FLOOD RISK", CRITICAL |-> "CRITICAL FLOOD DANGER"],
   FIRE |-> [INFO |-> "Fire Watch", WARNING |-> "Fire Warning",
             HIGH |-> "HIGH FIRE DANGER", CRITICAL |-> "FIRE EVACUATION"],
   EVACUATION |-> [INFO |-> "Evacuation Notice", WARNING |-> "Evacuation Warning",
                   HIGH |-> "Evacuation Order", CRITICAL |-> "IMMEDIATE EVACUATION"],
   STORM |-> [INFO |-> "Storm Watch", WARNING |-> "Storm Warning",
              HIGH |-> "SEVERE STORM", CRITICAL |-> "EXTREME STORM"],
   EARTHQUAKE |-> [INFO |-> "Earthquake Information", WARNING |-> "Earthquake Alert",
                   HIGH |-> "Earthquake Zone", CRITICAL |-> "EARTHQUAKE EMERGENCY"]]

EntryBody ==
  [FLOOD |->
     [INFO |-> "You are entering a flood watch area. Monitor weather conditions.",
      WARNING |-> "FLOOD WARNING: Avoid low-lying areas. Do not drive through water.",
      HIGH |-> "DANGER: High flood risk zone. Move to higher ground immediately. Avoid water.",
      CRITICAL |-> "LIFE-THREATENING FLOODING. Evacuate immediately to high ground. Call 999 if trapped."],
   FIRE |->
     [INFO |-> "Fire watch area. Be aware of smoke and follow local guidance.",
      WARNING |-> "WILDFIRE WARNING: Stay indoors. Close windows. Prepare to evacuate.",
      HIGH |-> "EXTREME FIRE RISK: Evacuate if ordered. Have go-bag ready. Close all windows.",
      CRITICAL |-> "IMMEDIATE EVACUATION REQUIRED. Leave now. Do not return. Call 999 for help."],
   EVACUATION |->
     [INFO |-> "Evacuation may be required. Stay informed and prepare essentials.",
      WARNING |-> "EVACUATION LIKELY: Pack essentials. Identify evacuation routes. Stand by.",
      HIGH |-> "MANDATORY EVACUATION: Leave immediately. Take essentials only. Follow official routes.",
      CRITICAL |-> "LIFE-THREATENING SITUATION. Leave NOW. Do not delay. Call 999 if unable to evacuate."],
   STORM |->
     [INFO |-> "Storm conditions possible. Secure loose objects. Stay updated.",
      WARNING |-> "SEVERE STORM: Stay indoors. Avoid windows. Secure outdoor items.",
      HIGH |-> "DANGEROUS STORM: Move to interior room. Stay away from windows. Avoid travel.",
      CRITICAL |-> "LIFE-THREATENING STORM. Take shelter immediately in basement or interior room. Call 999 for emergencies."],
   EARTHQUAKE |->
     [INFO |-> "Recent seismic activity detected. Review earthquake safety procedures.",
      WARNING |-> "EARTHQUAKE RISK: Secure heavy objects. Know safe spots. Drop, Cover, Hold On.",
      HIGH |-> "HIGH EARTHQUAKE RISK: Identify safe areas. Prepare for aftershocks. Stay alert.",
      CRITICAL |-> "MAJOR EARTHQUAKE: Drop, Cover, Hold On. Stay away from buildings. Expect aftershocks."]]

EntryAction ==
  [FLOOD |-> [INFO |-> "Stay informed about weather updates",
              WARNING |-> "Move to higher ground if needed",
              HIGH |-> "Evacuate to higher ground NOW",
              CRITICAL |-> "EVACUATE NOW - Life threatening"],
   FIRE |-> [INFO |-> "Monitor air quality", WARNING |-> "Prepare evacuation kit",
             HIGH |-> "Be ready to evacuate", CRITICAL |-> "LEAVE IMMEDIATELY"],
   EVACUATION |-> [INFO |-> "Prepare evacuation plan", WARNING |-> "Prepare to leave soon",
                   HIGH |-> "EVACUATE NOW", CRITICAL |-> "LEAVE IMMEDIATELY - Critical"],
   STORM |-> [INFO |-> "Prepare for storm", WARNING |-> "Take shelter indoors",
              HIGH |-> "Shelter in safe location", CRITICAL |-> "TAKE SHELTER NOW"],
   EARTHQUAKE |-> [INFO |-> "Review safety procedures",
                   WARNING |-> "Be prepared to take cover",
                   HIGH |-> "Drop, Cover, Hold On if shaking",
                   CRITICAL |-> "TAKE COVER - Stay safe"]]

\* a table in which a warning is delivered like an information
EntryPriority_WarningAsInfo ==
  [INFO |-> "DEFAULT", WARNING |-> "DEFAULT", HIGH |-> "MAX", CRITICAL |-> "MAX"]

\* priority: Notifications.AndroidNotificationPriority.X of the entry templates;
\* it is the same for a severity in every category
EntryPriority ==
  [INFO |-> "DEFAULT", WARNING |-> "HIGH", HIGH |-> "MAX", CRITICAL |-> "MAX"]

\* the declared enumerations DisasterType and SeverityLevel
DisasterTypes == {"FLOOD", "FIRE", "EVACUATION", "STORM", "EARTHQUAKE"}

SeverityLevels == {"INFO", "WARNING", "HIGH", "CRITICAL"}

\* getDisasterAlertContent reading the flood row for every category
getDisasterAlertContent_IgnoresType(type, severity, isEntering) ==
  IF ~isEntering
  THEN [title |-> "Safe Zone",
        body |-> "You have exited the emergency zone. Stay alert and monitor updates.",
        actionText |-> "You are now in a safer area",
        sound |-> TRUE, priority |-> "DEFAULT"]
  ELSE [title |-> EntryTitle["FLOOD"][severity], body |-> EntryBody["FLOOD"][severity],
        actionText |-> EntryAction["FLOOD"][severity],
        sound |-> TRUE, priority |-> EntryPriority[severity]]

getDisasterAlertContent(type, severity, isEntering) ==
  IF ~isEntering
  THEN [title |-> "Safe Zone",
        body |-> "You have exited the emergency zone. Stay alert and monitor updates.",
        actionText |-> "You are now in a safer area",
        sound |-> TRUE, priority |-> "DEFAULT"]
  ELSE [title |-> EntryTitle[type][severity], body |-> EntryBody[type][severity],
        actionText |-> EntryAction[type][severity],
        sound |-> TRUE, priority |-> EntryPriority[severity]]

\* getGeofenceDetails falling back to the first zone for an unknown identifier
getGeofenceDetails_FallsBack(identifier) ==
  IF \E k \in 1..NumZones : TEST_GEOFENCES[k].identifier = identifier
  THEN SelectSeq(TEST_GEOFENCES, LAMBDA g : g.identifier = identifier)
  ELSE << TEST_GEOFENCES[1] >>

\* TEST_GEOFENCES.find((g) => g.identifier === identifier); <<>> is undefined
getGeofenceDetails(identifier) ==
  SelectSeq(TEST_GEOFENCES, LAMBDA g : g.identifier = identifier)

(***************************************************************************)
(* State.                                                                  *)
(***************************************************************************)
VARIABLES
  zoneStore,            \* AsyncStorage[ZONE_STATE_KEY]: <<>> (no item) or <<ZoneState>>
  logs,                 \* AsyncStorage[LOGS_STORAGE_KEY], most recent first
  notifs,               \* notifications handed to scheduleNotificationAsync, in order
  registered,           \* TaskManager.isTaskRegisteredAsync(GEOFENCE_TASK)
  liveSubs,             \* position subscriptions live in the positioning service
  locationSubscription, \* the module's handle: a subscription id, or 0 for null
  clock,                \* logical time of new Date()
  ctl,                  \* the running startGeofencing / stopGeofencing call
  fg,                   \* the running handleLocationUpdate call
  bg,                   \* the running GEOFENCE_TASK callback
  lastDone,             \* the last point-based pass that ran alone, if nothing ran since
  afterStop,            \* stopGeofencing was the last call to begin, and it ran alone
  overlaps,             \* how many calls began while another call was in flight
  faults,               \* how many collaborator calls have failed
  alerts,               \* the calls of getDisasterAlertContent made on their own, with their results
  regions,              \* the identifiers of the regions registered for GEOFENCE_TASK
  lw                    \* the running startLocationWatching call made on its own

vars == << zoneStore, logs, notifs, registered, liveSubs, locationSubscription,
           clock, ctl, fg, bg, lastDone, afterStop, overlaps, faults, alerts, regions, lw >>

SubIds == {1, 2, 3}

NoPass == [point |-> 0, zones |-> {}]

Range(s) == { s[k] : k \in 1..Len(s) }

\* one recorded effect of a call: a collaborator call it made
Eff(op, zone, event) == [op |-> op, zone |-> zone, event |-> event]

CtlIdle ==
  [pc |-> "idle", op |-> "none", err |-> "none", position |-> 0, location |-> 0,
   currentState |-> <<>>, i |-> 0, existingLogs |-> <<>>,
   timestamp |-> 0, result |-> "none",
   trace |-> <<>>, clean |-> FALSE, snap |-> {}, prior |-> NoPass, wasRegistered |-> FALSE,
   followsStop |-> FALSE, failed |-> {}]

FgIdle ==
  [pc |-> "idle", location |-> 0, currentState |-> <<>>, i |-> 0,
   existingLogs |-> <<>>, timestamp |-> 0,
   trace |-> <<>>, clean |-> FALSE, snap |-> {}, prior |-> NoPass, failed |-> {}]

LwIdle == [pc |-> "idle"]

BgIdle ==
  [pc |-> "idle", eventType |-> "none", identifier |-> "none",
   insideZones |-> <<>>, existingLogs |-> <<>>, timestamp |-> 0,
   trace |-> <<>>, clean |-> FALSE, snap |-> {}, passWrote |-> FALSE, failed |-> {}]

\* the log entries appended since the initial state (those of the initial
\* state carry a timestamp before the clock's origin)
Appended == Cardinality({ k \in 1..Len(logs) : logs[k].timestamp >= 0 })

\* a new call may begin (exploration bound)
MayBegin == Appended < MaxLog /\ clock < MaxClock

\* the exploration of one call at a time starts its calls one tick earlier
SeqBound == Appended < MaxLog /\ clock < MaxClock - 1

\* the interleaved exploration starts its calls one entry and one tick earlier
ConcBound == Appended < MaxLog - 1 /\ clock < MaxClock - 1

(***************************************************************************)
(* Zone state store.                                                       *)
(***************************************************************************)
\* getZoneState: the stored state, or an empty one when nothing is stored
getZoneState ==
  IF zoneStore # <<>> THEN zoneStore[1]
  ELSE [insideZones |-> <<>>, lastUpdated |-> clock]

\* the persisted occupancy set
Persisted == Range(getZoneState.insideZones)

\* setZoneState(state)
setZoneState(state) == zoneStore' = << state >>

\* clearZoneState: AsyncStorage.removeItem(ZONE_STATE_KEY)
clearZoneState == zoneStore' = <<>>

includes(list, id) == \E k \in 1..Len(list) : list[k] = id

\* list.indexOf(id), 1-based; 0 when absent
indexOf(list, id) ==
  IF includes(list, id)
  THEN CHOOSE k \in 1..Len(list) : list[k] = id /\ \A j \in 1..(k - 1) : list[j] # id
  ELSE 0

\* list.splice(index, 1)
splice(list, index) ==
  [k \in 1..(Len(list) - 1) |-> IF k < index THEN list[k] ELSE list[k + 1]]

\* position of an identifier in the order of Array.prototype.sort (by code unit)
SortRank(id) ==
  CASE id = "evacuation-zone-north" -> 1
    [] id = "fire-risk-west"        -> 2
    [] id = "flood-derby-center"    -> 3
    [] id = "removed-zone"          -> 4
    [] id = "storm-warning-east"    -> 5

RECURSIVE sort(_)
\* list.sort(): insertion of the head into the sorted tail
sort(list) ==
  IF list = <<>> THEN <<>>
  ELSE LET rest == sort(Tail(list))
           lower == SelectSeq(rest, LAMBDA x : SortRank(x) < SortRank(Head(list)))
           upper == SelectSeq(rest, LAMBDA x : SortRank(x) >= SortRank(Head(list)))
       IN lower \o << Head(list) >> \o upper

(***************************************************************************)
(* Event log and notification dispatch.                                    *)
(***************************************************************************)
LogCapacity == 50

\* logEvent evicting with shift() instead of pop(): the entry just added goes
unshiftCapped_EvictsNewest(existing, event) ==
  LET added == << event >> \o existing
  IN IF Len(added) > LogCapacity THEN Tail(added) ELSE added

\* logs.unshift(event); if (logs.length > 50) logs.pop()
unshiftCapped(existing, event) ==
  LET added == << event >> \o existing
  IN IF Len(added) > LogCapacity THEN SubSeq(added, 1, Len(added) - 1) ELSE added

\* the log entry of a transition of catalogue zone g; kind is "location" or "region"
TransitionEvent(g, type, kind, timestamp) ==
  [type |-> type, timestamp |-> timestamp, kind |-> kind, disasterType |-> g.type,
   severity |-> g.severity, zoneName |-> g.description]

\* the log entry written when the task is called with an error
ErrorEvent(timestamp) ==
  [type |-> "ENTER", timestamp |-> timestamp, kind |-> "none", disasterType |-> "none",
   severity |-> "none", zoneName |-> "ERROR"]

\* the argument of sendAlertNotification: title, body, sound, priority and the
\* fields of data (the entry mark and the exit mark stand for the two emoji)
Notification(g, event, source, content, priority) ==
  [title |-> (IF event = "ENTER" THEN "(!) " ELSE "(v) ") \o content.title,
   body |-> IF event = "ENTER" THEN content.body
            ELSE "You have left " \o g.description \o ". " \o content.body,
   sound |-> content.sound,
   priority |-> priority,
   type |-> g.type, severity |-> g.severity, action |-> content.actionText,
   zoneName |-> g.description, event |-> event, geofenceId |-> g.identifier,
   source |-> source]

\* the alert of a point-based pass delivered at the default priority always
PointAlert_DefaultPriority(g, isEntering, source) ==
  LET alertContent == getDisasterAlertContent(g.type, g.severity, isEntering)
  IN Notification(g, IF isEntering THEN "ENTER" ELSE "EXIT", source,
                  alertContent, "DEFAULT")

\* the alert a point-based pass (checkInitialPosition, handleLocationUpdate)
\* sends for zone g: priority: alertContent.priority
PointAlert(g, isEntering, source) ==
  LET alertContent == getDisasterAlertContent(g.type, g.severity, isEntering)
  IN Notification(g, IF isEntering THEN "ENTER" ELSE "EXIT", source,
                  alertContent, alertContent.priority)

\* the alert the geofence task sends for zone g:
\* priority: isEntering ? alertContent.priority : AndroidNotificationPriority.DEFAULT
TaskAlert(g, isEntering) ==
  LET alertContent == getDisasterAlertContent(g.type, g.severity, isEntering)
      priority == IF isEntering THEN alertContent.priority ELSE "DEFAULT"
  IN Notification(g, IF isEntering THEN "ENTER" ELSE "EXIT", "background_geofence",
                  alertContent, priority)

(***************************************************************************)
(* The loop of a point-based pass.                                         *)
(***************************************************************************)
\* the catalogue zones containing sample point p, in catalogue order
\* (currentlyInside / newInsideZones after the loop)
currentlyInside(p) ==
  LET RECURSIVE Build(_)
      Build(k) == IF k > NumZones THEN <<>>
                  ELSE (IF InsideTable[p][k] THEN << TEST_GEOFENCES[k].identifier >> ELSE <<>>)
                       \o Build(k + 1)
  IN Build(1)

\* entered with the membership test on the previous state left out
entered_IgnoresState(p, previous, k) == InsideTable[p][k]

\* zone k is inside and was not in the state read: an ENTER is due
entered(p, previous, k) ==
  InsideTable[p][k] /\ ~includes(previous, TEST_GEOFENCES[k].identifier)

\* exited with the membership test on the previous state negated
exited_NegatedMembership(p, previous, k) ==
  ~InsideTable[p][k] /\ ~includes(previous, TEST_GEOFENCES[k].identifier)

\* zone k is outside and was in the state read: an EXIT is due
exited(p, previous, k) ==
  ~InsideTable[p][k] /\ includes(previous, TEST_GEOFENCES[k].identifier)

\* the next zone after index i for which the loop awaits a notification,
\* NumZones + 1 when the loop runs to its end without awaiting
NextTransition(p, previous, i) ==
  LET due == { k \in (i + 1)..NumZones : entered(p, previous, k) \/ exited(p, previous, k) }
  IN IF due = {} THEN NumZones + 1
     ELSE CHOOSE k \in due : \A j \in due : k <= j

(***************************************************************************)
(* Initial state: a fresh install, nothing stored, nothing registered.     *)
(***************************************************************************)
Init ==
  /\ zoneStore = <<>>
  /\ logs = <<>>
  /\ notifs = <<>>
  /\ registered = FALSE
  /\ liveSubs = {}
  /\ locationSubscription = 0
  /\ clock = 0
  /\ ctl = CtlIdle
  /\ fg = FgIdle
  /\ bg = BgIdle
  /\ lastDone = NoPass
  /\ afterStop = FALSE
  /\ overlaps = 0
  /\ faults = 0
  /\ alerts = <<>>
  /\ regions = {}
  /\ lw = LwIdle

\* an entry appended before the initial state, the k-th newest of them
OldEvent(k) ==
  TransitionEvent(TEST_GEOFENCES[(k % NumZones) + 1],
                  IF (k \div NumZones) % 2 = 0 THEN "EXIT" ELSE "ENTER", "region", 0 - k)

\* an installation whose log is one entry short of its capacity, or full
InitLog ==
  /\ zoneStore = <<>>
  /\ \E n \in {LogCapacity - 1, LogCapacity} : logs = [k \in 1..n |-> OldEvent(k)]
  /\ notifs = <<>>
  /\ registered = FALSE
  /\ liveSubs = {}
  /\ locationSubscription = 0
  /\ clock = 0
  /\ ctl = CtlIdle
  /\ fg = FgIdle
  /\ bg = BgIdle
  /\ lastDone = NoPass
  /\ afterStop = FALSE
  /\ overlaps = 0
  /\ faults = 0
  /\ alerts = <<>>
  /\ regions = {}
  /\ lw = LwIdle

InFlight(proc) == proc.pc \notin {"idle", "done", "resolved", "rejected"}

\* when another call begins, a call in flight is no longer running alone and
\* the record of a finished call is dropped
Dirty(proc, idle) == IF InFlight(proc) THEN [proc EXCEPT !.clean = FALSE] ELSE idle

\* a point-based pass writes the zone state: a callback that has read the
\* state and not yet written it now holds a stale copy
MarkPassWrote ==
  IF bg.pc = "bg_stateset" THEN [bg EXCEPT !.passWrote = TRUE] ELSE bg

\* no call is in flight
Quiet == ~InFlight(ctl) /\ ~InFlight(fg) /\ ~InFlight(bg)

\* a call begins, alone or overlapping the calls in flight (exploration bound)
Begin ==
  IF Quiet THEN overlaps' = overlaps
  ELSE overlaps < MaxOverlap /\ overlaps' = overlaps + 1

(***************************************************************************)
(* startGeofencing.                                                        *)
(***************************************************************************)
\* the UI or another caller invokes startGeofencing(); position is where the
\* positioning service will place the user during the call (0: it will throw)
StartCallFrom(positions) ==
  /\ ~InFlight(ctl)
  /\ MayBegin
  /\ \E position \in positions :
       ctl' = [CtlIdle EXCEPT !.pc = "s_fg", !.op = "start", !.position = position,
                              !.clean = (~InFlight(fg) /\ ~InFlight(bg)),
                              !.snap = Persisted, !.wasRegistered = registered,
                              !.followsStop = afterStop]
  /\ fg' = Dirty(fg, FgIdle)
  /\ bg' = Dirty(bg, BgIdle)
  /\ Begin
  /\ UNCHANGED << lw, regions, alerts, faults, zoneStore, logs, notifs, registered, liveSubs,
                  locationSubscription, clock, lastDone, afterStop >>

StartCall == StartCallFrom(PointIds \cup {0})

\* startGeofencing() with the user at one of the probe positions
StartCallAtProbe == StartCallFrom(ProbeIds)

\* a permission request whose denial is not thrown
RequestPermission_IgnoresDenial(at, op, next, message) ==
  /\ ctl.pc = at
  /\ \E status \in {"granted", "denied"} :
       ctl' = [ctl EXCEPT !.trace = Append(@, Eff(op, "-", status)), !.pc = next]
  /\ UNCHANGED << lw, regions, alerts, faults, zoneStore, logs, notifs, registered, liveSubs,
                  locationSubscription, clock, fg, bg, lastDone, afterStop, overlaps >>

\* a permission request: granted moves on, denied throws out of startGeofencing
RequestPermission(at, op, next, message) ==
  /\ ctl.pc = at
  /\ \E status \in {"granted", "denied"} :
       ctl' = [ctl EXCEPT !.trace = Append(@, Eff(op, "-", status)),
                          !.pc = IF status = "granted" THEN next ELSE "rejected",
                          !.err = IF status = "granted" THEN "none" ELSE message]
  /\ UNCHANGED << lw, regions, alerts, faults, zoneStore, logs, notifs, registered, liveSubs,
                  locationSubscription, clock, fg, bg, lastDone, afterStop, overlaps >>

\* 1. Location.requestForegroundPermissionsAsync()
Start_ForegroundPermission ==
  RequestPermission("s_fg", "requestForegroundPermissions", "s_bg",
                    "Foreground location permission denied")

\* 2. Location.requestBackgroundPermissionsAsync()
Start_BackgroundPermission ==
  RequestPermission("s_bg", "requestBackgroundPermissions", "s_notif",
                    "Background location permission denied. Enable Always Allow in device settings.")

\* 3. Notifications.requestPermissionsAsync()
Start_NotificationPermission ==
  RequestPermission("s_notif", "requestNotificationPermissions", "s_isreg",
                    "Notification permission denied")

\* startGeofencing registering again without stopping a previous registration
Start_IsTaskRegistered_SkipsTeardown ==
  /\ ctl.pc = "s_isreg"
  /\ ctl' = [ctl EXCEPT !.trace = Append(@, Eff("isTaskRegistered", "-", "-")),
                        !.pc = "s_startgeo"]
  /\ UNCHANGED << lw, regions, alerts, faults, zoneStore, logs, notifs, registered, liveSubs,
                  locationSubscription, clock, fg, bg, lastDone, afterStop, overlaps >>

\* 4./5. ensureAndroidChannel(); alreadyRunning = isTaskRegisteredAsync(GEOFENCE_TASK)
Start_IsTaskRegistered ==
  /\ ctl.pc = "s_isreg"
  /\ ctl' = [ctl EXCEPT !.trace = Append(@, Eff("isTaskRegistered", "-", "-")),
                        !.pc = IF registered THEN "s_stopprev" ELSE "s_startgeo"]
  /\ UNCHANGED << lw, regions, alerts, faults, zoneStore, logs, notifs, registered, liveSubs,
                  locationSubscription, clock, fg, bg, lastDone, afterStop, overlaps >>

\* 6. const regions = TEST_GEOFENCES.map(...): one region per catalogue zone
CatalogueRegions == { TEST_GEOFENCES[k].identifier : k \in 1..NumZones }

\* 5. Location.stopGeofencingAsync(GEOFENCE_TASK) of the previous registration
Start_StopPrevious ==
  /\ ctl.pc = "s_stopprev"
  /\ registered' = FALSE
  /\ regions' = {}
  /\ ctl' = [ctl EXCEPT !.trace = Append(@, Eff("stopGeofencing", "-", "-")),
                        !.pc = "s_startgeo"]
  /\ UNCHANGED << lw, alerts, faults, zoneStore, logs, notifs, liveSubs,
                  locationSubscription, clock, fg, bg, lastDone, afterStop, overlaps >>

\* startGeofencing without step 10: registration goes straight on to step 11
Start_StartGeofencing_SkipsInitialCheck ==
  /\ ctl.pc = "s_startgeo"
  /\ registered' = TRUE
  /\ regions' = CatalogueRegions
  /\ ctl' = [ctl EXCEPT !.trace = Append(@, Eff("startGeofencing", "-", "-")),
                        !.pc = "s_watch"]
  /\ UNCHANGED << lw, alerts, faults, zoneStore, logs, notifs, liveSubs,
                  locationSubscription, clock, fg, bg, lastDone, afterStop, overlaps >>

\* 7.-9. Location.startGeofencingAsync(GEOFENCE_TASK, regions); the
\* verification and the debugging position query change nothing
Start_StartGeofencing ==
  /\ ctl.pc = "s_startgeo"
  /\ registered' = TRUE
  /\ regions' = CatalogueRegions
  /\ ctl' = [ctl EXCEPT !.trace = Append(@, Eff("startGeofencing", "-", "-")),
                        !.pc = "ci_getpos"]
  /\ UNCHANGED << lw, alerts, faults, zoneStore, logs, notifs, liveSubs,
                  locationSubscription, clock, fg, bg, lastDone, afterStop, overlaps >>

(***************************************************************************)
(* checkInitialPosition, as called by step 10 of startGeofencing.          *)
(***************************************************************************)
\* checkInitialPosition resetting the occupancy state when no position is obtained
CheckInitial_GetPosition_ClearsOnFailure ==
  /\ ctl.pc = "ci_getpos"
  /\ ctl' = [ctl EXCEPT !.trace = Append(@, Eff("getCurrentPosition", "-", "-")),
                        !.location = ctl.position, !.prior = lastDone,
                        !.pc = IF ctl.position # 0 THEN "ci_read" ELSE "s_watch"]
  /\ zoneStore' = IF ctl.position # 0 THEN zoneStore ELSE <<>>
  /\ lastDone' = NoPass
  /\ afterStop' = FALSE
  /\ UNCHANGED << lw, regions, alerts, faults, logs, notifs, registered, liveSubs,
                  locationSubscription, clock, fg, bg, overlaps >>

\* Location.getCurrentPositionAsync: a point, or a throw caught at the end
CheckInitial_GetPosition ==
  /\ ctl.pc = "ci_getpos"
  /\ ctl' = [ctl EXCEPT !.trace = Append(@, Eff("getCurrentPosition", "-", "-")),
                        !.location = ctl.position, !.prior = lastDone,
                        !.pc = IF ctl.position # 0 THEN "ci_read" ELSE "s_watch"]
  /\ lastDone' = NoPass
  /\ afterStop' = FALSE
  /\ UNCHANGED << lw, regions, alerts, faults, zoneStore, logs, notifs, registered, liveSubs,
                  locationSubscription, clock, fg, bg, overlaps >>

\* const currentState = await getZoneState(); then the loop up to its first await
CheckInitial_GetZoneState ==
  /\ ctl.pc = "ci_read"
  /\ LET previous == getZoneState.insideZones
         k == NextTransition(ctl.location, previous, 0)
     IN ctl' = [ctl EXCEPT !.currentState = previous, !.i = k,
                           !.pc = IF k <= NumZones THEN "ci_notify" ELSE "ci_write"]
  /\ UNCHANGED << lw, regions, alerts, faults, zoneStore, logs, notifs, registered, liveSubs,
                  locationSubscription, clock, fg, bg, lastDone, afterStop, overlaps >>

\* await sendAlertNotification({...source: 'initial_check'}) for zone i
CheckInitial_Notify ==
  /\ ctl.pc = "ci_notify"
  /\ LET g == TEST_GEOFENCES[ctl.i]
         isEntering == entered(ctl.location, ctl.currentState, ctl.i)
         event == IF isEntering THEN "ENTER" ELSE "EXIT"
     IN /\ notifs' = Append(notifs, PointAlert(g, isEntering, "initial_check"))
        /\ ctl' = [ctl EXCEPT !.trace = Append(@, Eff("notify", g.identifier, event)),
                              !.pc = "ci_logget"]
  /\ UNCHANGED << lw, regions, alerts, faults, zoneStore, logs, registered, liveSubs,
                  locationSubscription, clock, fg, bg, lastDone, afterStop, overlaps >>

\* logEvent: const existingLogs = await AsyncStorage.getItem(LOGS_STORAGE_KEY)
CheckInitial_LogGet ==
  /\ ctl.pc = "ci_logget"
  /\ ctl' = [ctl EXCEPT !.existingLogs = logs, !.timestamp = clock, !.pc = "ci_logset"]
  /\ UNCHANGED << lw, regions, alerts, faults, zoneStore, logs, notifs, registered, liveSubs,
                  locationSubscription, clock, fg, bg, lastDone, afterStop, overlaps >>

\* logEvent: await AsyncStorage.setItem(LOGS_STORAGE_KEY, ...); the loop goes on
CheckInitial_LogSet ==
  /\ ctl.pc = "ci_logset"
  /\ LET g == TEST_GEOFENCES[ctl.i]
         event == IF entered(ctl.location, ctl.currentState, ctl.i) THEN "ENTER" ELSE "EXIT"
         k == NextTransition(ctl.location, ctl.currentState, ctl.i)
     IN /\ logs' = unshiftCapped(ctl.existingLogs,
                                 TransitionEvent(g, event, "location", ctl.timestamp))
        /\ ctl' = [ctl EXCEPT !.trace = Append(@, Eff("log", g.identifier, event)),
                              !.existingLogs = <<>>, !.timestamp = 0, !.i = k,
                              !.pc = IF k <= NumZones THEN "ci_notify" ELSE "ci_write"]
  /\ UNCHANGED << lw, regions, alerts, faults, zoneStore, notifs, registered, liveSubs,
                  locationSubscription, clock, fg, bg, lastDone, afterStop, overlaps >>

\* await setZoneState({insideZones: currentlyInside, lastUpdated}): always written
CheckInitial_SetZoneState ==
  /\ ctl.pc = "ci_write"
  /\ clock' = clock + 1
  /\ setZoneState([insideZones |-> currentlyInside(ctl.location), lastUpdated |-> clock'])
  /\ ctl' = [ctl EXCEPT !.trace = Append(@, Eff("setZoneState", "-", "-")),
                        !.pc = "s_watch"]
  /\ lastDone' = IF ctl.clean
                 THEN [point |-> ctl.location, zones |-> Range(currentlyInside(ctl.location))]
                 ELSE NoPass
  /\ bg' = MarkPassWrote
  /\ UNCHANGED << lw, regions, alerts, faults, logs, notifs, registered, liveSubs, locationSubscription,
                  fg, afterStop, overlaps >>

(***************************************************************************)
(* startLocationWatching, as called by step 11 of startGeofencing.         *)
(***************************************************************************)
\* remove the existing subscription, then locationSubscription = await watchPositionAsync
Start_LocationWatching ==
  /\ ctl.pc = "s_watch"
  /\ LET remaining == liveSubs \ {locationSubscription}
         new == CHOOSE s \in SubIds : s \notin remaining
     IN /\ liveSubs' = remaining \cup {new}
        /\ locationSubscription' = new
  /\ ctl' = [ctl EXCEPT !.trace = Append(@, Eff("watchPosition", "-", "-")),
                        !.pc = "resolved"]
  /\ UNCHANGED << lw, regions, alerts, faults, zoneStore, logs, notifs, registered, clock, fg, bg, lastDone, afterStop, overlaps >>

\* startLocationWatching: the subscription in the handle is removed, then
\* watchPositionAsync rejects; the catch of startGeofencing rethrows
Start_LocationWatching_Fails ==
  /\ ctl.pc = "s_watch"
  /\ liveSubs' = liveSubs \ {locationSubscription}
  /\ locationSubscription' = 0
  /\ ctl' = [ctl EXCEPT !.failed = @ \cup {"watchPosition"},
                        !.err = "watchPositionAsync failed", !.pc = "rejected"]
  /\ faults < MaxFaults
  /\ faults' = faults + 1
  /\ UNCHANGED << lw, regions, alerts, zoneStore, logs, notifs, registered, clock, fg, bg,
                  lastDone, afterStop, overlaps >>

(***************************************************************************)
(* startLocationWatching and stopLocationWatching, called on their own.    *)
(***************************************************************************)
\* startLocationWatching() up to its await: the subscription in the handle is
\* removed, the handle is null while watchPositionAsync is pending
Watch_Call ==
  /\ lw.pc = "idle"
  /\ liveSubs' = liveSubs \ {locationSubscription}
  /\ locationSubscription' = 0
  /\ lw' = [lw EXCEPT !.pc = "lw_watch"]
  /\ UNCHANGED << regions, alerts, faults, zoneStore, logs, notifs, registered, clock,
                  ctl, fg, bg, lastDone, afterStop, overlaps >>

\* locationSubscription = await Location.watchPositionAsync(...)
Watch_Subscribed ==
  /\ lw.pc = "lw_watch"
  /\ LET new == CHOOSE s \in SubIds : s \notin liveSubs
     IN /\ liveSubs' = liveSubs \cup {new}
        /\ locationSubscription' = new
  /\ lw' = [lw EXCEPT !.pc = "idle"]
  /\ UNCHANGED << regions, alerts, faults, zoneStore, logs, notifs, registered, clock,
                  ctl, fg, bg, lastDone, afterStop, overlaps >>

\* stopLocationWatching(), synchronous
StopWatching_Call ==
  /\ liveSubs' = liveSubs \ {locationSubscription}
  /\ locationSubscription' = 0
  /\ UNCHANGED << lw, regions, alerts, faults, zoneStore, logs, notifs, registered, clock,
                  ctl, fg, bg, lastDone, afterStop, overlaps >>

(***************************************************************************)
(* stopGeofencing.                                                         *)
(***************************************************************************)
\* stopLocationWatching(): synchronous, runs as stopGeofencing is called
stopLocationWatching ==
  /\ liveSubs' = liveSubs \ {locationSubscription}
  /\ locationSubscription' = 0

StopCall ==
  /\ ~InFlight(ctl)
  /\ stopLocationWatching
  /\ ctl' = [CtlIdle EXCEPT !.pc = "st_isreg", !.op = "stop",
                            !.clean = (~InFlight(fg) /\ ~InFlight(bg)),
                            !.snap = Persisted, !.wasRegistered = registered,
                            !.trace = << Eff("stopLocationWatching", "-", "-") >>]
  /\ fg' = Dirty(fg, FgIdle)
  /\ bg' = Dirty(bg, BgIdle)
  /\ lastDone' = NoPass
  /\ afterStop' = (~InFlight(fg) /\ ~InFlight(bg))
  /\ Begin
  /\ UNCHANGED << lw, regions, alerts, faults, zoneStore, logs, notifs, registered, clock >>

\* stopGeofencing going on to clearZoneState without stopGeofencingAsync
Stop_IsTaskRegistered_SkipsUnregister ==
  /\ ctl.pc = "st_isreg"
  /\ ctl' = [ctl EXCEPT !.trace = Append(@, Eff("isTaskRegistered", "-", "-")),
                        !.pc = IF registered THEN "st_clear" ELSE "resolved"]
  /\ UNCHANGED << lw, regions, alerts, faults, zoneStore, logs, notifs, registered, liveSubs,
                  locationSubscription, clock, fg, bg, lastDone, afterStop, overlaps >>

\* const registered = await isTaskRegisteredAsync(GEOFENCE_TASK); if (!registered) return
Stop_IsTaskRegistered ==
  /\ ctl.pc = "st_isreg"
  /\ ctl' = [ctl EXCEPT !.trace = Append(@, Eff("isTaskRegistered", "-", "-")),
                        !.pc = IF registered THEN "st_stopgeo" ELSE "resolved"]
  /\ UNCHANGED << lw, regions, alerts, faults, zoneStore, logs, notifs, registered, liveSubs,
                  locationSubscription, clock, fg, bg, lastDone, afterStop, overlaps >>

\* await Location.stopGeofencingAsync(GEOFENCE_TASK)
Stop_StopGeofencing ==
  /\ ctl.pc = "st_stopgeo"
  /\ registered' = FALSE
  /\ regions' = {}
  /\ ctl' = [ctl EXCEPT !.trace = Append(@, Eff("stopGeofencing", "-", "-")),
                        !.pc = "st_clear"]
  /\ UNCHANGED << lw, alerts, faults, zoneStore, logs, notifs, liveSubs,
                  locationSubscription, clock, fg, bg, lastDone, afterStop, overlaps >>

\* await clearZoneState()
Stop_ClearZoneState ==
  /\ ctl.pc = "st_clear"
  /\ clearZoneState
  /\ ctl' = [ctl EXCEPT !.trace = Append(@, Eff("clearZoneState", "-", "-")),
                        !.pc = "resolved"]
  /\ bg' = [bg EXCEPT !.passWrote = FALSE]
  /\ UNCHANGED << lw, regions, alerts, faults, logs, notifs, registered, liveSubs,
                  locationSubscription, clock, fg, lastDone, afterStop, overlaps >>

(***************************************************************************)
(* isGeofencingActive, and a restart of the process.                       *)
(***************************************************************************)
\* isGeofencingActive answering from the module's subscription handle
isGeofencingActive_FromHandle == locationSubscription # 0

\* const active = await TaskManager.isTaskRegisteredAsync(GEOFENCE_TASK); return active
isGeofencingActive == registered

\* the presentation layer asks whether monitoring is active
IsActiveCall ==
  /\ ~InFlight(ctl)
  /\ ctl' = [CtlIdle EXCEPT !.pc = "ia_isreg", !.op = "isActive",
                            !.clean = (~InFlight(fg) /\ ~InFlight(bg)),
                            !.snap = Persisted, !.wasRegistered = registered]
  /\ fg' = Dirty(fg, FgIdle)
  /\ bg' = Dirty(bg, BgIdle)
  /\ lastDone' = NoPass
  /\ afterStop' = FALSE
  /\ Begin
  /\ UNCHANGED << lw, regions, alerts, faults, zoneStore, logs, notifs, registered, liveSubs,
                  locationSubscription, clock >>

\* the query resolves with the platform's answer
IsActive_IsTaskRegistered ==
  /\ ctl.pc = "ia_isreg"
  /\ ctl' = [ctl EXCEPT !.trace = Append(@, Eff("isTaskRegistered", "-", "-")),
                        !.result = isGeofencingActive,
                        !.pc = "resolved"]
  /\ UNCHANGED << lw, regions, alerts, faults, zoneStore, logs, notifs, registered, liveSubs,
                  locationSubscription, clock, fg, bg, lastDone, afterStop, overlaps >>

\* the process is killed and launched again: the module's memory starts over
\* (locationSubscription = null, no call in flight) and the subscriptions of
\* the old process are gone; the storage and the task registration stay
Restart ==
  /\ locationSubscription' = 0
  /\ liveSubs' = {}
  /\ ctl' = CtlIdle
  /\ fg' = FgIdle
  /\ bg' = BgIdle
  /\ lastDone' = NoPass
  /\ afterStop' = FALSE
  /\ lw' = LwIdle
  /\ UNCHANGED << regions, alerts, faults, zoneStore, logs, notifs, registered, clock, overlaps >>

(***************************************************************************)
(* handleLocationUpdate, the callback of the foreground subscription.      *)
(***************************************************************************)
\* the positioning service delivers a point to a live subscription
HandleUpdate_CallFrom(points) ==
  /\ ~InFlight(fg)
  /\ liveSubs # {}
  /\ MayBegin
  /\ \E p \in points :
       fg' = [FgIdle EXCEPT !.pc = "fg_read", !.location = p,
                            !.clean = (~InFlight(ctl) /\ ~InFlight(bg)),
                            !.snap = Persisted, !.prior = lastDone]
  /\ ctl' = Dirty(ctl, CtlIdle)
  /\ bg' = Dirty(bg, BgIdle)
  /\ lastDone' = NoPass
  /\ afterStop' = FALSE
  /\ Begin
  /\ UNCHANGED << lw, regions, alerts, faults, zoneStore, logs, notifs, registered, liveSubs,
                  locationSubscription, clock >>

HandleUpdate_Call == HandleUpdate_CallFrom(PointIds)

\* the positioning service delivers one of the probe positions
HandleUpdate_CallAtProbe == HandleUpdate_CallFrom(ProbeIds)

\* the tail of the loop writing the state whether or not the lists differ
HandleUpdate_After_AlwaysWrites(p, previous, i) ==
  LET k == NextTransition(p, previous, i)
  IN IF k <= NumZones THEN "fg_notify" ELSE "fg_write"

\* the synchronous tail of the loop: where the handler awaits next.  The
\* state is written only if the sorted lists differ as JSON text.
HandleUpdate_After(p, previous, i) ==
  LET k == NextTransition(p, previous, i)
  IN IF k <= NumZones THEN "fg_notify"
     ELSE IF sort(currentlyInside(p)) # sort(previous) THEN "fg_write"
     ELSE "done"

\* const currentState = await getZoneState(); then the loop up to its first await
HandleUpdate_GetZoneState ==
  /\ fg.pc = "fg_read"
  /\ LET previous == getZoneState.insideZones
         next == HandleUpdate_After(fg.location, previous, 0)
     IN /\ fg' = [fg EXCEPT !.currentState = previous,
                            !.i = NextTransition(fg.location, previous, 0),
                            !.pc = next]
        /\ lastDone' = IF next = "done" /\ fg.clean
                       THEN [point |-> fg.location, zones |-> Persisted]
                       ELSE lastDone
  /\ UNCHANGED << lw, regions, alerts, faults, zoneStore, logs, notifs, registered, liveSubs,
                  locationSubscription, clock, ctl, bg, afterStop, overlaps >>

\* the foreground handler dispatching every alert at the default priority
HandleUpdate_Notify_DefaultPriority ==
  /\ fg.pc = "fg_notify"
  /\ LET g == TEST_GEOFENCES[fg.i]
         isEntering == entered(fg.location, fg.currentState, fg.i)
         event == IF isEntering THEN "ENTER" ELSE "EXIT"
     IN /\ notifs' = Append(notifs, PointAlert_DefaultPriority(g, isEntering, "foreground_watch"))
        /\ fg' = [fg EXCEPT !.trace = Append(@, Eff("notify", g.identifier, event)),
                            !.pc = "fg_logget"]
  /\ UNCHANGED << lw, regions, alerts, faults, zoneStore, logs, registered, liveSubs,
                  locationSubscription, clock, ctl, bg, lastDone, afterStop, overlaps >>

\* await sendAlertNotification({...source: 'foreground_watch'}) for zone i
HandleUpdate_Notify ==
  /\ fg.pc = "fg_notify"
  /\ LET g == TEST_GEOFENCES[fg.i]
         isEntering == entered(fg.location, fg.currentState, fg.i)
         event == IF isEntering THEN "ENTER" ELSE "EXIT"
     IN /\ notifs' = Append(notifs, PointAlert(g, isEntering, "foreground_watch"))
        /\ fg' = [fg EXCEPT !.trace = Append(@, Eff("notify", g.identifier, event)),
                            !.pc = "fg_logget"]
  /\ UNCHANGED << lw, regions, alerts, faults, zoneStore, logs, registered, liveSubs,
                  locationSubscription, clock, ctl, bg, lastDone, afterStop, overlaps >>

\* logEvent: const existingLogs = await AsyncStorage.getItem(LOGS_STORAGE_KEY)
HandleUpdate_LogGet ==
  /\ fg.pc = "fg_logget"
  /\ fg' = [fg EXCEPT !.existingLogs = logs, !.timestamp = clock, !.pc = "fg_logset"]
  /\ UNCHANGED << lw, regions, alerts, faults, zoneStore, logs, notifs, registered, liveSubs,
                  locationSubscription, clock, ctl, bg, lastDone, afterStop, overlaps >>

\* logEvent: await AsyncStorage.setItem(LOGS_STORAGE_KEY, ...); the loop goes on
HandleUpdate_LogSet ==
  /\ fg.pc = "fg_logset"
  /\ LET g == TEST_GEOFENCES[fg.i]
         event == IF entered(fg.location, fg.currentState, fg.i) THEN "ENTER" ELSE "EXIT"
     IN /\ logs' = unshiftCapped(fg.existingLogs,
                                 TransitionEvent(g, event, "location", fg.timestamp))
        /\ fg' = [fg EXCEPT !.trace = Append(@, Eff("log", g.identifier, event)),
                            !.existingLogs = <<>>, !.timestamp = 0,
                            !.i = NextTransition(fg.location, fg.currentState, fg.i),
                            !.pc = HandleUpdate_After(fg.location, fg.currentState, fg.i)]
  /\ UNCHANGED << lw, regions, alerts, faults, zoneStore, notifs, registered, liveSubs,
                  locationSubscription, clock, ctl, bg, lastDone, afterStop, overlaps >>

\* the foreground handler adding the zones the point is in to the list it
\* read, instead of replacing the list
HandleUpdate_SetZoneState_Merges ==
  /\ fg.pc = "fg_write"
  /\ clock' = clock + 1
  /\ setZoneState([insideZones |->
                     sort(fg.currentState \o
                          SelectSeq(currentlyInside(fg.location),
                                    LAMBDA z : ~includes(fg.currentState, z))),
                   lastUpdated |-> clock'])
  /\ fg' = [fg EXCEPT !.trace = Append(@, Eff("setZoneState", "-", "-")),
                      !.pc = "done"]
  /\ lastDone' = IF fg.clean
                 THEN [point |-> fg.location, zones |-> Range(currentlyInside(fg.location))]
                 ELSE NoPass
  /\ bg' = MarkPassWrote
  /\ UNCHANGED << lw, regions, alerts, faults, logs, notifs, registered, liveSubs, locationSubscription,
                  ctl, afterStop, overlaps >>

\* await setZoneState({insideZones: newInsideZones, lastUpdated}); the list
\* was sorted in place by the comparison
HandleUpdate_SetZoneState ==
  /\ fg.pc = "fg_write"
  /\ clock' = clock + 1
  /\ setZoneState([insideZones |-> sort(currentlyInside(fg.location)),
                   lastUpdated |-> clock'])
  /\ fg' = [fg EXCEPT !.trace = Append(@, Eff("setZoneState", "-", "-")),
                      !.pc = "done"]
  /\ lastDone' = IF fg.clean
                 THEN [point |-> fg.location, zones |-> Range(currentlyInside(fg.location))]
                 ELSE NoPass
  /\ bg' = MarkPassWrote
  /\ UNCHANGED << lw, regions, alerts, faults, logs, notifs, registered, liveSubs, locationSubscription,
                  ctl, afterStop, overlaps >>

(***************************************************************************)
(* The GEOFENCE_TASK callback.                                             *)
(***************************************************************************)
\* the catalogue zones whose boundary the platform reports as crossed
TaskZones == {"flood-derby-center", "evacuation-zone-north"}

\* what the platform may hand to the task
TaskInputs ==
  { [kind |-> "error", eventType |-> "none", identifier |-> "none"],
    [kind |-> "missing", eventType |-> "none", identifier |-> "none"] }
  \cup [kind : {"data"}, eventType : {"Enter", "Exit"},
        identifier : TaskZones \cup {UnknownId}]

\* the platform calls the task while it is registered; the checks up to the
\* first await run at once
Task_Call ==
  /\ ~InFlight(bg)
  /\ registered
  /\ MayBegin
  /\ \E in \in TaskInputs :
       bg' = [BgIdle EXCEPT
                !.eventType = in.eventType, !.identifier = in.identifier,
                !.timestamp = IF in.kind = "missing"
                                 \/ (in.kind = "data" /\ getGeofenceDetails(in.identifier) = <<>>)
                              THEN 0 ELSE clock,
                !.clean = (~InFlight(ctl) /\ ~InFlight(fg)),
                !.snap = Persisted,
                !.pc = CASE in.kind = "error" -> "bg_errlogget"
                         [] in.kind = "missing" -> "done"
                         [] getGeofenceDetails(in.identifier) = <<>> -> "done"
                         [] OTHER -> "bg_stateget"]
  /\ ctl' = Dirty(ctl, CtlIdle)
  /\ fg' = Dirty(fg, FgIdle)
  /\ lastDone' = NoPass
  /\ afterStop' = FALSE
  /\ Begin
  /\ UNCHANGED << lw, regions, alerts, faults, zoneStore, logs, notifs, registered, liveSubs,
                  locationSubscription, clock >>

\* if (error) { await logEvent({type: 'ENTER', zoneName: 'ERROR: ...'}); return }
Task_ErrorLogGet ==
  /\ bg.pc = "bg_errlogget"
  /\ bg' = [bg EXCEPT !.existingLogs = logs, !.pc = "bg_errlogset"]
  /\ UNCHANGED << lw, regions, alerts, faults, zoneStore, logs, notifs, registered, liveSubs,
                  locationSubscription, clock, ctl, fg, lastDone, afterStop, overlaps >>

Task_ErrorLogSet ==
  /\ bg.pc = "bg_errlogset"
  /\ logs' = unshiftCapped(bg.existingLogs, ErrorEvent(bg.timestamp))
  /\ bg' = [bg EXCEPT !.trace = Append(@, Eff("log", "-", "ERROR")),
                      !.existingLogs = <<>>, !.timestamp = 0, !.pc = "done"]
  /\ UNCHANGED << lw, regions, alerts, faults, zoneStore, notifs, registered, liveSubs,
                  locationSubscription, clock, ctl, fg, lastDone, afterStop, overlaps >>

\* addToInsideZones storing only the new identifier instead of pushing it
addToInsideZones_Overwrites(insideZones, zoneId) ==
  IF ~includes(insideZones, zoneId)
  THEN [write |-> TRUE, insideZones |-> << zoneId >>]
  ELSE [write |-> FALSE, insideZones |-> insideZones]

\* addToInsideZones: the list after the push, and whether it is written
addToInsideZones(insideZones, zoneId) ==
  IF ~includes(insideZones, zoneId)
  THEN [write |-> TRUE, insideZones |-> Append(insideZones, zoneId)]
  ELSE [write |-> FALSE, insideZones |-> insideZones]

\* removeFromInsideZones writing the state also when the zone is not in the list
removeFromInsideZones_AlwaysWrites(insideZones, zoneId) ==
  IF indexOf(insideZones, zoneId) > 0
  THEN [write |-> TRUE, insideZones |-> splice(insideZones, indexOf(insideZones, zoneId))]
  ELSE [write |-> TRUE, insideZones |-> insideZones]

\* removeFromInsideZones: the list after the splice, and whether it is written
removeFromInsideZones(insideZones, zoneId) ==
  IF indexOf(insideZones, zoneId) > 0
  THEN [write |-> TRUE, insideZones |-> splice(insideZones, indexOf(insideZones, zoneId))]
  ELSE [write |-> FALSE, insideZones |-> insideZones]

\* addToInsideZones / removeFromInsideZones: const state = await getZoneState()
Task_GetZoneState ==
  /\ bg.pc = "bg_stateget"
  /\ LET read == getZoneState.insideZones
         upd == IF bg.eventType = "Enter"
                THEN addToInsideZones(read, bg.identifier)
                ELSE removeFromInsideZones(read, bg.identifier)
     IN bg' = [bg EXCEPT !.insideZones = upd.insideZones,
                         !.pc = IF upd.write THEN "bg_stateset" ELSE "bg_notify"]
  /\ UNCHANGED << lw, regions, alerts, faults, zoneStore, logs, notifs, registered, liveSubs,
                  locationSubscription, clock, ctl, fg, lastDone, afterStop, overlaps >>

\* addToInsideZones / removeFromInsideZones: await setZoneState(state)
Task_SetZoneState ==
  /\ bg.pc = "bg_stateset"
  /\ clock' = clock + 1
  /\ setZoneState([insideZones |-> bg.insideZones, lastUpdated |-> clock'])
  /\ bg' = [bg EXCEPT !.trace = Append(@, Eff("setZoneState", "-", "-")),
                      !.pc = "bg_notify"]
  /\ UNCHANGED << lw, regions, alerts, faults, logs, notifs, registered, liveSubs, locationSubscription,
                  ctl, fg, lastDone, afterStop, overlaps >>

\* the callback persisting its list once more after the notification
Task_Notify_ThenWrites ==
  /\ bg.pc = "bg_notify"
  /\ clock' = clock + 1
  /\ setZoneState([insideZones |-> bg.insideZones, lastUpdated |-> clock'])
  /\ LET g == getGeofenceDetails(bg.identifier)[1]
         isEntering == (bg.eventType = "Enter")
         event == IF isEntering THEN "ENTER" ELSE "EXIT"
     IN /\ notifs' = Append(notifs, TaskAlert(g, isEntering))
        /\ bg' = [bg EXCEPT !.trace = @ \o << Eff("notify", g.identifier, event),
                                             Eff("setZoneState", "-", "-") >>,
                            !.pc = "bg_logget"]
  /\ UNCHANGED << lw, regions, alerts, faults, logs, registered, liveSubs,
                  locationSubscription, ctl, fg, lastDone, afterStop, overlaps >>

\* await sendAlertNotification({...source: 'background_geofence'})
Task_Notify ==
  /\ bg.pc = "bg_notify"
  /\ LET g == getGeofenceDetails(bg.identifier)[1]
         isEntering == (bg.eventType = "Enter")
         event == IF isEntering THEN "ENTER" ELSE "EXIT"
     IN /\ notifs' = Append(notifs, TaskAlert(g, isEntering))
        /\ bg' = [bg EXCEPT !.trace = Append(@, Eff("notify", g.identifier, event)),
                            !.pc = "bg_logget"]
  /\ UNCHANGED << lw, regions, alerts, faults, zoneStore, logs, registered, liveSubs,
                  locationSubscription, clock, ctl, fg, lastDone, afterStop, overlaps >>

\* logEvent: const existingLogs = await AsyncStorage.getItem(LOGS_STORAGE_KEY)
Task_LogGet ==
  /\ bg.pc = "bg_logget"
  /\ bg' = [bg EXCEPT !.existingLogs = logs, !.pc = "bg_logset"]
  /\ UNCHANGED << lw, regions, alerts, faults, zoneStore, logs, notifs, registered, liveSubs,
                  locationSubscription, clock, ctl, fg, lastDone, afterStop, overlaps >>

\* the callback logging its transition with the zone's description only
Task_LogSet_OmitsCategory ==
  /\ bg.pc = "bg_logset"
  /\ LET g == getGeofenceDetails(bg.identifier)[1]
         event == IF bg.eventType = "Enter" THEN "ENTER" ELSE "EXIT"
     IN /\ logs' = unshiftCapped(bg.existingLogs,
                                 [ErrorEvent(bg.timestamp) EXCEPT
                                    !.type = event, !.zoneName = g.description])
        /\ bg' = [bg EXCEPT !.trace = Append(@, Eff("log", g.identifier, event)),
                            !.existingLogs = <<>>, !.timestamp = 0, !.pc = "done"]
  /\ UNCHANGED << lw, regions, alerts, faults, zoneStore, notifs, registered, liveSubs,
                  locationSubscription, clock, ctl, fg, lastDone, afterStop, overlaps >>

\* logEvent: await AsyncStorage.setItem(LOGS_STORAGE_KEY, ...)
Task_LogSet ==
  /\ bg.pc = "bg_logset"
  /\ LET g == getGeofenceDetails(bg.identifier)[1]
         event == IF bg.eventType = "Enter" THEN "ENTER" ELSE "EXIT"
     IN /\ logs' = unshiftCapped(bg.existingLogs,
                                 TransitionEvent(g, event, "region", bg.timestamp))
        /\ bg' = [bg EXCEPT !.trace = Append(@, Eff("log", g.identifier, event)),
                            !.existingLogs = <<>>, !.timestamp = 0, !.pc = "done"]
  /\ UNCHANGED << lw, regions, alerts, faults, zoneStore, notifs, registered, liveSubs,
                  locationSubscription, clock, ctl, fg, lastDone, afterStop, overlaps >>

(***************************************************************************)
(* Collaborator failures.  getZoneState, setZoneState, logEvent and        *)
(* sendAlertNotification catch what their awaits throw; clearZoneState     *)
(* does not.  A failed call leaves no entry in the trace of its caller and *)
(* its name in the caller's set failed; the exploration lets at most       *)
(* MaxFaults calls fail.                                                   *)
(***************************************************************************)
\* getZoneState: getItem throws, the catch returns the empty default state
CheckInitial_GetZoneState_Fails ==
  /\ ctl.pc = "ci_read"
  /\ LET previous == <<>>
         k == NextTransition(ctl.location, previous, 0)
     IN ctl' = [ctl EXCEPT !.failed = @ \cup {"getZoneState"}, !.currentState = previous, !.i = k,
                           !.pc = IF k <= NumZones THEN "ci_notify" ELSE "ci_write"]
  /\ faults < MaxFaults
  /\ faults' = faults + 1
  /\ UNCHANGED << lw, regions, alerts, zoneStore, logs, notifs, registered, liveSubs,
                  locationSubscription, clock, fg, bg, lastDone, afterStop, overlaps >>

\* getZoneState without its try/catch: the failed read ends the handler
HandleUpdate_GetZoneState_Fails_EndsPass ==
  /\ fg.pc = "fg_read"
  /\ fg' = [fg EXCEPT !.failed = @ \cup {"getZoneState"}, !.pc = "done"]
  /\ faults < MaxFaults
  /\ faults' = faults + 1
  /\ UNCHANGED << lw, regions, alerts, zoneStore, logs, notifs, registered, liveSubs,
                  locationSubscription, clock, ctl, bg, lastDone, afterStop, overlaps >>

HandleUpdate_GetZoneState_Fails ==
  /\ fg.pc = "fg_read"
  /\ LET previous == <<>>
     IN fg' = [fg EXCEPT !.failed = @ \cup {"getZoneState"}, !.currentState = previous,
                         !.i = NextTransition(fg.location, previous, 0),
                         !.pc = HandleUpdate_After(fg.location, previous, 0)]
  /\ faults < MaxFaults
  /\ faults' = faults + 1
  /\ UNCHANGED << lw, regions, alerts, zoneStore, logs, notifs, registered, liveSubs,
                  locationSubscription, clock, ctl, bg, lastDone, afterStop, overlaps >>

Task_GetZoneState_Fails ==
  /\ bg.pc = "bg_stateget"
  /\ LET read == <<>>
         upd == IF bg.eventType = "Enter"
                THEN addToInsideZones(read, bg.identifier)
                ELSE removeFromInsideZones(read, bg.identifier)
     IN bg' = [bg EXCEPT !.failed = @ \cup {"getZoneState"}, !.insideZones = upd.insideZones,
                         !.pc = IF upd.write THEN "bg_stateset" ELSE "bg_notify"]
  /\ faults < MaxFaults
  /\ faults' = faults + 1
  /\ UNCHANGED << lw, regions, alerts, zoneStore, logs, notifs, registered, liveSubs,
                  locationSubscription, clock, ctl, fg, lastDone, afterStop, overlaps >>

\* setZoneState: setItem throws, the catch logs it and nothing is stored
CheckInitial_SetZoneState_Fails ==
  /\ ctl.pc = "ci_write"
  /\ ctl' = [ctl EXCEPT !.failed = @ \cup {"setZoneState"}, !.pc = "s_watch"]
  /\ faults < MaxFaults
  /\ faults' = faults + 1
  /\ UNCHANGED << lw, regions, alerts, zoneStore, logs, notifs, registered, liveSubs,
                  locationSubscription, clock, fg, bg, lastDone, afterStop, overlaps >>

HandleUpdate_SetZoneState_Fails ==
  /\ fg.pc = "fg_write"
  /\ fg' = [fg EXCEPT !.failed = @ \cup {"setZoneState"}, !.pc = "done"]
  /\ faults < MaxFaults
  /\ faults' = faults + 1
  /\ UNCHANGED << lw, regions, alerts, zoneStore, logs, notifs, registered, liveSubs,
                  locationSubscription, clock, ctl, bg, lastDone, afterStop, overlaps >>

\* setZoneState without its try/catch: the failure ends the callback before
\* its notification
Task_SetZoneState_Fails_EndsTask ==
  /\ bg.pc = "bg_stateset"
  /\ bg' = [bg EXCEPT !.failed = @ \cup {"setZoneState"}, !.pc = "done"]
  /\ faults < MaxFaults
  /\ faults' = faults + 1
  /\ UNCHANGED << lw, regions, alerts, zoneStore, logs, notifs, registered, liveSubs,
                  locationSubscription, clock, ctl, fg, lastDone, afterStop, overlaps >>

Task_SetZoneState_Fails ==
  /\ bg.pc = "bg_stateset"
  /\ bg' = [bg EXCEPT !.failed = @ \cup {"setZoneState"}, !.pc = "bg_notify"]
  /\ faults < MaxFaults
  /\ faults' = faults + 1
  /\ UNCHANGED << lw, regions, alerts, zoneStore, logs, notifs, registered, liveSubs,
                  locationSubscription, clock, ctl, fg, lastDone, afterStop, overlaps >>

\* sendAlertNotification: scheduleNotificationAsync (or the channel setup)
\* throws, the catch logs it and nothing is dispatched
CheckInitial_Notify_Fails ==
  /\ ctl.pc = "ci_notify"
  /\ ctl' = [ctl EXCEPT !.failed = @ \cup {"sendAlertNotification"},
               !.pc = "ci_logget"]
  /\ faults < MaxFaults
  /\ faults' = faults + 1
  /\ UNCHANGED << lw, regions, alerts, zoneStore, logs, notifs, registered, liveSubs,
                  locationSubscription, clock, fg, bg, lastDone, afterStop, overlaps >>

HandleUpdate_Notify_Fails ==
  /\ fg.pc = "fg_notify"
  /\ fg' = [fg EXCEPT !.failed = @ \cup {"sendAlertNotification"},
              !.pc = "fg_logget"]
  /\ faults < MaxFaults
  /\ faults' = faults + 1
  /\ UNCHANGED << lw, regions, alerts, zoneStore, logs, notifs, registered, liveSubs,
                  locationSubscription, clock, ctl, bg, lastDone, afterStop, overlaps >>

Task_Notify_Fails ==
  /\ bg.pc = "bg_notify"
  /\ bg' = [bg EXCEPT !.failed = @ \cup {"sendAlertNotification"}, !.pc = "bg_logget"]
  /\ faults < MaxFaults
  /\ faults' = faults + 1
  /\ UNCHANGED << lw, regions, alerts, zoneStore, logs, notifs, registered, liveSubs,
                  locationSubscription, clock, ctl, fg, lastDone, afterStop, overlaps >>

\* logEvent: getItem or setItem throws, the catch logs it and nothing is appended
CheckInitial_LogEvent_Fails ==
  /\ ctl.pc \in {"ci_logget", "ci_logset"}
  /\ LET k == NextTransition(ctl.location, ctl.currentState, ctl.i)
     IN ctl' = [ctl EXCEPT !.failed = @ \cup {"logEvent"},
                  !.existingLogs = <<>>, !.timestamp = 0, !.i = k,
                  !.pc = IF k <= NumZones THEN "ci_notify" ELSE "ci_write"]
  /\ faults < MaxFaults
  /\ faults' = faults + 1
  /\ UNCHANGED << lw, regions, alerts, zoneStore, logs, notifs, registered, liveSubs,
                  locationSubscription, clock, fg, bg, lastDone, afterStop, overlaps >>

HandleUpdate_LogEvent_Fails ==
  /\ fg.pc \in {"fg_logget", "fg_logset"}
  /\ fg' = [fg EXCEPT !.failed = @ \cup {"logEvent"},
              !.existingLogs = <<>>, !.timestamp = 0,
              !.i = NextTransition(fg.location, fg.currentState, fg.i),
              !.pc = HandleUpdate_After(fg.location, fg.currentState, fg.i)]
  /\ faults < MaxFaults
  /\ faults' = faults + 1
  /\ UNCHANGED << lw, regions, alerts, zoneStore, logs, notifs, registered, liveSubs,
                  locationSubscription, clock, ctl, bg, lastDone, afterStop, overlaps >>

\* logEvent without its try/catch: the failure leaves the task through its caller
Task_LogEvent_Throws ==
  /\ bg.pc \in {"bg_logget", "bg_logset"}
  /\ bg' = [bg EXCEPT !.failed = @ \cup {"logEvent"}, !.existingLogs = <<>>, !.timestamp = 0, !.pc = "threw"]
  /\ faults < MaxFaults
  /\ faults' = faults + 1
  /\ UNCHANGED << lw, regions, alerts, zoneStore, logs, notifs, registered, liveSubs,
                  locationSubscription, clock, ctl, fg, lastDone, afterStop, overlaps >>

Task_LogEvent_Fails ==
  /\ bg.pc \in {"bg_logget", "bg_logset"}
  /\ bg' = [bg EXCEPT !.failed = @ \cup {"logEvent"}, !.existingLogs = <<>>, !.timestamp = 0, !.pc = "done"]
  /\ faults < MaxFaults
  /\ faults' = faults + 1
  /\ UNCHANGED << lw, regions, alerts, zoneStore, logs, notifs, registered, liveSubs,
                  locationSubscription, clock, ctl, fg, lastDone, afterStop, overlaps >>

Task_ErrorLogEvent_Fails ==
  /\ bg.pc \in {"bg_errlogget", "bg_errlogset"}
  /\ bg' = [bg EXCEPT !.failed = @ \cup {"logEvent"}, !.existingLogs = <<>>, !.timestamp = 0, !.pc = "done"]
  /\ faults < MaxFaults
  /\ faults' = faults + 1
  /\ UNCHANGED << lw, regions, alerts, zoneStore, logs, notifs, registered, liveSubs,
                  locationSubscription, clock, ctl, fg, lastDone, afterStop, overlaps >>

\* clearZoneState: removeItem throws; nothing catches it, neither in
\* clearZoneState nor in stopGeofencing, so stopGeofencing rejects
Stop_ClearZoneState_Fails ==
  /\ ctl.pc = "st_clear"
  /\ ctl' = [ctl EXCEPT !.failed = @ \cup {"clearZoneState"}, !.err = "removeItem failed",
                        !.pc = "rejected"]
  /\ faults < MaxFaults
  /\ faults' = faults + 1
  /\ UNCHANGED << lw, regions, alerts, zoneStore, logs, notifs, registered, liveSubs,
                  locationSubscription, clock, fg, bg, lastDone, afterStop, overlaps >>

(***************************************************************************)
(* Specification.                                                          *)
(***************************************************************************)
Next ==
  \/ ConcBound /\ StartCall
  \/ Start_ForegroundPermission
  \/ Start_BackgroundPermission
  \/ Start_NotificationPermission
  \/ Start_IsTaskRegistered
  \/ Start_StopPrevious
  \/ Start_StartGeofencing
  \/ CheckInitial_GetPosition
  \/ CheckInitial_GetZoneState
  \/ CheckInitial_Notify
  \/ CheckInitial_LogGet
  \/ CheckInitial_LogSet
  \/ CheckInitial_SetZoneState
  \/ Start_LocationWatching
  \/ StopCall
  \/ Stop_IsTaskRegistered
  \/ Stop_StopGeofencing
  \/ Stop_ClearZoneState
  \/ ConcBound /\ HandleUpdate_Call
  \/ HandleUpdate_GetZoneState
  \/ HandleUpdate_Notify
  \/ HandleUpdate_LogGet
  \/ HandleUpdate_LogSet
  \/ HandleUpdate_SetZoneState
  \/ ConcBound /\ Task_Call
  \/ Task_ErrorLogGet
  \/ Task_ErrorLogSet
  \/ Task_GetZoneState
  \/ Task_SetZoneState
  \/ Task_Notify
  \/ Task_LogGet
  \/ Task_LogSet

Spec == Init /\ [][Next]_vars

\* the same calls, none beginning before the calls in flight have finished
NextSeq ==
  \/ Quiet /\ SeqBound /\ StartCall
  \/ Quiet /\ StopCall
  \/ Quiet /\ SeqBound /\ HandleUpdate_Call
  \/ Quiet /\ SeqBound /\ Task_Call
  \/ Start_ForegroundPermission
  \/ Start_BackgroundPermission
  \/ Start_NotificationPermission
  \/ Start_IsTaskRegistered
  \/ Start_StopPrevious
  \/ Start_StartGeofencing
  \/ CheckInitial_GetPosition
  \/ CheckInitial_GetZoneState
  \/ CheckInitial_Notify
  \/ CheckInitial_LogGet
  \/ CheckInitial_LogSet
  \/ CheckInitial_SetZoneState
  \/ Start_LocationWatching
  \/ Stop_IsTaskRegistered
  \/ Stop_StopGeofencing
  \/ Stop_ClearZoneState
  \/ HandleUpdate_GetZoneState
  \/ HandleUpdate_Notify
  \/ HandleUpdate_LogGet
  \/ HandleUpdate_LogSet
  \/ HandleUpdate_SetZoneState
  \/ Task_ErrorLogGet
  \/ Task_ErrorLogSet
  \/ Task_GetZoneState
  \/ Task_SetZoneState
  \/ Task_Notify
  \/ Task_LogGet
  \/ Task_LogSet

SpecSeq == Init /\ [][NextSeq]_vars

\* the steps by which a call in flight goes on
Continue ==
  \/ Start_ForegroundPermission
  \/ Start_BackgroundPermission
  \/ Start_NotificationPermission
  \/ Start_IsTaskRegistered
  \/ Start_StopPrevious
  \/ Start_StartGeofencing
  \/ CheckInitial_GetPosition
  \/ CheckInitial_GetZoneState
  \/ CheckInitial_Notify
  \/ CheckInitial_LogGet
  \/ CheckInitial_LogSet
  \/ CheckInitial_SetZoneState
  \/ Start_LocationWatching
  \/ Stop_IsTaskRegistered
  \/ Stop_StopGeofencing
  \/ Stop_ClearZoneState
  \/ HandleUpdate_GetZoneState
  \/ HandleUpdate_Notify
  \/ HandleUpdate_LogGet
  \/ HandleUpdate_LogSet
  \/ HandleUpdate_SetZoneState
  \/ Task_ErrorLogGet
  \/ Task_ErrorLogSet
  \/ Task_GetZoneState
  \/ Task_SetZoneState
  \/ Task_Notify
  \/ Task_LogGet
  \/ Task_LogSet

\* one call at a time, on a log that is about to reach its capacity
NextLog ==
  \/ Quiet /\ ConcBound /\ StartCall
  \/ Quiet /\ StopCall
  \/ Quiet /\ ConcBound /\ HandleUpdate_Call
  \/ Quiet /\ ConcBound /\ Task_Call
  \/ Continue

SpecLog == InitLog /\ [][NextLog]_vars

\* one call at a time, with queries of the session state, and restarts of the
\* process between calls
NextLife ==
  \/ Quiet /\ ConcBound /\ StartCall
  \/ Quiet /\ StopCall
  \/ Quiet /\ ConcBound /\ HandleUpdate_Call
  \/ Quiet /\ ConcBound /\ Task_Call
  \/ Quiet /\ IsActiveCall
  \/ IsActive_IsTaskRegistered
  \/ Quiet /\ Restart
  \/ Continue

SpecLife == Init /\ [][NextLife]_vars

\* startGeofencing and stopGeofencing run alone; the foreground handler (at
\* the probe positions) and the geofence task may overlap each other
RaceBound == Appended < MaxLog - 2 /\ clock < MaxClock - 2

NextRace ==
  \/ Quiet /\ SeqBound /\ StartCall /\ ctl'.position = 0
  \/ Quiet /\ SeqBound /\ StartCallAtProbe
  \/ Quiet /\ StopCall
  \/ ~InFlight(ctl) /\ (Quiet \/ RaceBound) /\ HandleUpdate_CallAtProbe
  \/ ~InFlight(ctl) /\ ((Quiet /\ SeqBound) \/ RaceBound) /\ Task_Call /\ bg'.identifier = "flood-derby-center"
  \/ Start_ForegroundPermission
  \/ Start_BackgroundPermission
  \/ Start_NotificationPermission
  \/ Start_IsTaskRegistered
  \/ Start_StopPrevious
  \/ Start_StartGeofencing
  \/ CheckInitial_GetPosition
  \/ CheckInitial_GetZoneState
  \/ CheckInitial_Notify
  \/ CheckInitial_LogGet
  \/ CheckInitial_LogSet
  \/ CheckInitial_SetZoneState
  \/ Start_LocationWatching
  \/ Stop_IsTaskRegistered
  \/ Stop_StopGeofencing
  \/ Stop_ClearZoneState
  \/ HandleUpdate_GetZoneState
  \/ HandleUpdate_Notify
  \/ HandleUpdate_LogGet
  \/ HandleUpdate_LogSet
  \/ HandleUpdate_SetZoneState
  \/ Task_GetZoneState
  \/ Task_SetZoneState
  \/ Task_Notify
  \/ Task_LogGet
  \/ Task_LogSet

SpecRace == Init /\ [][NextRace]_vars

\* one call at a time, the point-based passes at the probe positions
NextProbe ==
  \/ Quiet /\ ConcBound /\ StartCallAtProbe
  \/ Quiet /\ StopCall
  \/ Quiet /\ ConcBound /\ HandleUpdate_CallAtProbe
  \/ Quiet /\ ConcBound /\ Task_Call
  \/ Continue

SpecProbe == Init /\ [][NextProbe]_vars

\* the zones of the declared enumerations: the first catalogue zone with its
\* category and severity replaced
ZoneOf(type, severity) == [TEST_GEOFENCES[1] EXCEPT !.type = type, !.severity = severity]

\* getDisasterAlertContent(type, severity, isEntering) called on its own
ComposeAlert ==
  /\ Len(alerts) < MaxAlerts
  /\ \E type \in DisasterTypes, severity \in SeverityLevels, isEntering \in BOOLEAN :
       alerts' = Append(alerts, [type |-> type, severity |-> severity,
                                 isEntering |-> isEntering,
                                 content |-> getDisasterAlertContent(type, severity,
                                                                     isEntering)])
  /\ UNCHANGED << lw, regions, faults, zoneStore, logs, notifs, registered, liveSubs,
                  locationSubscription, clock, ctl, fg, bg, lastDone, afterStop, overlaps >>

SpecCompose == Init /\ [][ComposeAlert]_vars

\* the alert of a point-based pass for a zone of any category and severity
DispatchPointAlert ==
  /\ Len(notifs) < MaxDispatch
  /\ \E type \in DisasterTypes, severity \in SeverityLevels, isEntering \in BOOLEAN,
        source \in {"initial_check", "foreground_watch"} :
       notifs' = Append(notifs, PointAlert(ZoneOf(type, severity), isEntering, source))
  /\ UNCHANGED << lw, regions, alerts, faults, zoneStore, logs, registered, liveSubs,
                  locationSubscription, clock, ctl, fg, bg, lastDone, afterStop, overlaps >>

\* the alert of the geofence task for a zone of any category and severity
DispatchTaskAlert ==
  /\ Len(notifs) < MaxDispatch
  /\ \E type \in DisasterTypes, severity \in SeverityLevels, isEntering \in BOOLEAN :
       notifs' = Append(notifs, TaskAlert(ZoneOf(type, severity), isEntering))
  /\ UNCHANGED << lw, regions, alerts, faults, zoneStore, logs, registered, liveSubs,
                  locationSubscription, clock, ctl, fg, bg, lastDone, afterStop, overlaps >>

NextDispatch ==
  \/ DispatchPointAlert
  \/ DispatchTaskAlert

SpecDispatch == Init /\ [][NextDispatch]_vars

\* the exploration with failures starts its calls two entries and two ticks earlier
FaultBound == Appended < MaxLog - 2 /\ clock < MaxClock - 2

\* one call at a time, every persistence and notification call may fail
NextFault ==
  \/ Quiet /\ FaultBound /\ StartCall
  \/ Quiet /\ StopCall
  \/ Quiet /\ FaultBound /\ HandleUpdate_Call
  \/ Quiet /\ FaultBound /\ Task_Call
  \/ Continue
  \/ CheckInitial_GetZoneState_Fails
  \/ HandleUpdate_GetZoneState_Fails
  \/ Task_GetZoneState_Fails
  \/ CheckInitial_SetZoneState_Fails
  \/ HandleUpdate_SetZoneState_Fails
  \/ Task_SetZoneState_Fails
  \/ CheckInitial_Notify_Fails
  \/ HandleUpdate_Notify_Fails
  \/ Task_Notify_Fails
  \/ CheckInitial_LogEvent_Fails
  \/ HandleUpdate_LogEvent_Fails
  \/ Task_LogEvent_Fails
  \/ Task_ErrorLogEvent_Fails
  \/ Stop_ClearZoneState_Fails

SpecFault == Init /\ [][NextFault]_vars

\* one call at a time, the reads of the occupancy state may fail
NextRead ==
  \/ Quiet /\ ConcBound /\ StartCall
  \/ Quiet /\ StopCall
  \/ Quiet /\ ConcBound /\ HandleUpdate_Call
  \/ Quiet /\ ConcBound /\ Task_Call
  \/ Continue
  \/ CheckInitial_GetZoneState_Fails
  \/ HandleUpdate_GetZoneState_Fails
  \/ Task_GetZoneState_Fails

SpecRead == Init /\ [][NextRead]_vars

\* startGeofencing and stopGeofencing one at a time, with calls of
\* startLocationWatching and stopLocationWatching made on their own at any
\* moment, also while startGeofencing or stopGeofencing awaits
NextWatch ==
  \/ Quiet /\ SeqBound /\ StartCall
  \/ Start_ForegroundPermission
  \/ Start_BackgroundPermission
  \/ Start_NotificationPermission
  \/ Start_IsTaskRegistered
  \/ Start_StopPrevious
  \/ Start_StartGeofencing
  \/ CheckInitial_GetPosition
  \/ CheckInitial_GetZoneState
  \/ CheckInitial_Notify
  \/ CheckInitial_LogGet
  \/ CheckInitial_LogSet
  \/ CheckInitial_SetZoneState
  \/ Start_LocationWatching
  \/ Quiet /\ StopCall
  \/ Stop_IsTaskRegistered
  \/ Stop_StopGeofencing
  \/ Stop_ClearZoneState
  \/ Cardinality(liveSubs) < 2 /\ Watch_Call
  \/ Watch_Subscribed
  \/ StopWatching_Call

SpecWatch == Init /\ [][NextWatch]_vars

\* startGeofencing and stopGeofencing one at a time; the subscription of the
\* foreground watch may fail
NextSession ==
  \/ Quiet /\ SeqBound /\ StartCall
  \/ Start_ForegroundPermission
  \/ Start_BackgroundPermission
  \/ Start_NotificationPermission
  \/ Start_IsTaskRegistered
  \/ Start_StopPrevious
  \/ Start_StartGeofencing
  \/ CheckInitial_GetPosition
  \/ CheckInitial_GetZoneState
  \/ CheckInitial_Notify
  \/ CheckInitial_LogGet
  \/ CheckInitial_LogSet
  \/ CheckInitial_SetZoneState
  \/ Start_LocationWatching
  \/ Start_LocationWatching_Fails
  \/ Quiet /\ StopCall
  \/ Stop_IsTaskRegistered
  \/ Stop_StopGeofencing
  \/ Stop_ClearZoneState

SpecSession == Init /\ [][NextSession]_vars

(***************************************************************************)
(* Vocabulary of the properties.                                           *)
(***************************************************************************)
\* the catalogue zones containing sample point p
InsideSet(p) ==
  { TEST_GEOFENCES[k].identifier : k \in { j \in 1..NumZones : InsideTable[p][j] } }

\* how often a call made the collaborator call e
Count(trace, e) == Cardinality({ k \in 1..Len(trace) : trace[k] = e })

\* the notifications and the log entries of a call, in order
Notified(trace) == SelectSeq(trace, LAMBDA e : e.op = "notify")
Logged(trace) == SelectSeq(trace, LAMBDA e : e.op = "log")

DescriptionOf(id) == getGeofenceDetails(id)[1].description

\* the last notifications handed to the collaborator are those of the call
NotifsEndWith(trace) ==
  LET n == Len(Notified(trace))
  IN /\ Len(notifs) >= n
     /\ \A k \in 1..n :
          /\ notifs[Len(notifs) - n + k].geofenceId = Notified(trace)[k].zone
          /\ notifs[Len(notifs) - n + k].event = Notified(trace)[k].event

\* the newest log entries are those of the call, newest first
LogsBeginWith(trace) ==
  LET n == Len(Logged(trace))
  IN /\ Len(logs) >= n
     /\ \A k \in 1..n :
          /\ logs[n - k + 1].type = Logged(trace)[k].event
          /\ logs[n - k + 1].zoneName = DescriptionOf(Logged(trace)[k].zone)

\* the initial check of the running startGeofencing got a position and has finished
InitialCheckDone ==
  ctl.op = "start" /\ ctl.position # 0 /\ ctl.pc \in {"s_watch", "resolved"}

\* the effects of a point-based pass at p from the occupancy set prev are the diff
DiffCorrect(trace, prev, p) ==
  LET cur == InsideSet(p)
  IN /\ \A z \in ZoneIds :
          /\ Count(trace, Eff("notify", z, "ENTER")) = (IF z \in cur \ prev THEN 1 ELSE 0)
          /\ Count(trace, Eff("log", z, "ENTER")) = (IF z \in cur \ prev THEN 1 ELSE 0)
          /\ Count(trace, Eff("notify", z, "EXIT")) = (IF z \in prev \ cur THEN 1 ELSE 0)
          /\ Count(trace, Eff("log", z, "EXIT")) = (IF z \in prev \ cur THEN 1 ELSE 0)
     /\ Len(Notified(trace)) = Cardinality(cur \ prev) + Cardinality(prev \ cur)
     /\ Len(Logged(trace)) = Cardinality(cur \ prev) + Cardinality(prev \ cur)
     /\ NotifsEndWith(trace)
     /\ LogsBeginWith(trace)
     /\ Persisted = cur

(***************************************************************************)
(* C1.  A point-based pass (checkInitialPosition or handleLocationUpdate)  *)
(* that runs alone from the persisted set Prev at a point whose containing *)
(* zones are Cur dispatches exactly one ENTER notification and one ENTER   *)
(* log entry per zone of Cur \ Prev, exactly one EXIT notification and log *)
(* entry per zone of Prev \ Cur, nothing else, and leaves Cur persisted.   *)
(***************************************************************************)
C1_DiffCorrectness ==
  /\ (fg.pc = "done" /\ fg.clean) => DiffCorrect(fg.trace, fg.snap, fg.location)
  /\ (InitialCheckDone /\ ctl.pc = "s_watch" /\ ctl.clean)
       => DiffCorrect(ctl.trace, ctl.snap, ctl.position)

\* the claim's example: from {fire, flood} to {flood, storm}
C1_Witness ==
  /\ fg.pc = "done" /\ fg.clean
  /\ fg.snap = {"fire-risk-west", "flood-derby-center"}
  /\ InsideSet(fg.location) = {"flood-derby-center", "storm-warning-east"}
  /\ Count(fg.trace, Eff("notify", "fire-risk-west", "EXIT")) = 1
  /\ Count(fg.trace, Eff("notify", "storm-warning-east", "ENTER")) = 1

(***************************************************************************)
(* C2.  Idempotence: a point-based pass that runs alone at point P right   *)
(* after a point-based pass at the same P (nothing in between) dispatches  *)
(* no notification, appends no log entry and leaves the persisted set as   *)
(* the first pass left it.                                                 *)
(***************************************************************************)
Idempotent(trace, prior) ==
  /\ Notified(trace) = <<>>
  /\ Logged(trace) = <<>>
  /\ Persisted = prior.zones

C2_Idempotence ==
  /\ (fg.pc = "done" /\ fg.clean /\ fg.prior.point = fg.location)
       => Idempotent(fg.trace, fg.prior)
  /\ (InitialCheckDone /\ ctl.clean /\ ctl.prior.point = ctl.position)
       => Idempotent(ctl.trace, ctl.prior)

\* a second foreground pass inside two zones, after a pass at the same point
C2_Witness ==
  /\ fg.pc = "done" /\ fg.clean /\ fg.prior.point = fg.location
  /\ Cardinality(InsideSet(fg.location)) = 2
  /\ Persisted = InsideSet(fg.location)

(***************************************************************************)
(* C3.  No double delivery: under any interleaving of the callback, the    *)
(* initial check and the foreground handler, the notifications dispatched  *)
(* for one zone alternate in direction (never two ENTER without an EXIT    *)
(* between them, never two EXIT without an ENTER between them).            *)
(***************************************************************************)
C3_NoDoubleDelivery ==
  \A z \in ZoneIds :
    LET forZone == SelectSeq(notifs, LAMBDA n : n.geofenceId = z)
    IN \A k \in 1..(Len(forZone) - 1) : forZone[k].event # forZone[k + 1].event

(***************************************************************************)
(* C4.  startGeofencing() with every permission granted, an empty          *)
(* persisted occupancy state and the user's point inside zone X, with no   *)
(* callback and no other call running: when it resolves, exactly one ENTER *)
(* notification and one ENTER log entry for X were dispatched by it and X  *)
(* is in the persisted occupancy set.                                      *)
(***************************************************************************)
C4_StartAlertsWhenAlreadyInside ==
  (ctl.op = "start" /\ ctl.pc = "resolved" /\ ctl.clean
     /\ ctl.snap = {} /\ ctl.position # 0)
    => /\ \A X \in InsideSet(ctl.position) :
            /\ Count(ctl.trace, Eff("notify", X, "ENTER")) = 1
            /\ Count(ctl.trace, Eff("log", X, "ENTER")) = 1
            /\ X \in Persisted
       /\ NotifsEndWith(ctl.trace)
       /\ LogsBeginWith(ctl.trace)

C4_Witness ==
  /\ ctl.op = "start" /\ ctl.pc = "resolved" /\ ctl.clean
  /\ ctl.snap = {} /\ ctl.position # 0
  /\ "flood-derby-center" \in InsideSet(ctl.position)
  /\ notifs # <<>>
  /\ \A n \in Range(notifs) : n.source = "initial_check"

(***************************************************************************)
(* C5.  A background callback for catalogue zone Z that runs alone changes *)
(* the persisted set to Prev \cup {Z} on ENTER and to Prev \ {Z} on EXIT;  *)
(* the membership of every other identifier is as before.                  *)
(***************************************************************************)
C5_SignalTouchesOnlyItsZone ==
  (bg.pc = "done" /\ bg.clean /\ bg.identifier \in ZoneIds)
    => /\ bg.eventType = "Enter" => Persisted = bg.snap \cup {bg.identifier}
       /\ bg.eventType = "Exit" => Persisted = bg.snap \ {bg.identifier}
       /\ \A Y \in (ZoneIds \cup {UnknownId}) \ {bg.identifier} :
            (Y \in Persisted) <=> (Y \in bg.snap)

\* an ENTER for a zone not yet in a non-empty occupancy set
C5_Witness ==
  /\ bg.pc = "done" /\ bg.clean /\ bg.eventType = "Enter"
  /\ bg.identifier = "evacuation-zone-north"
  /\ bg.snap = {"fire-risk-west", "flood-derby-center"}
  /\ Persisted = bg.snap \cup {bg.identifier}

(***************************************************************************)
(* C6.  When a callback for zone Z runs concurrently with a point-based    *)
(* pass (the pass writes between the callback's read and write), the       *)
(* callback's write leaves every zone Y # Z as the pass persisted it.      *)
(***************************************************************************)
C6_SignalKeepsPassResult ==
  [][ (bg.pc = "bg_stateset" /\ bg.passWrote /\ bg'.pc = "bg_notify")
        => \A Y \in ZoneIds \ {bg.identifier} : (Y \in Persisted') <=> (Y \in Persisted) ]_vars

(***************************************************************************)
(* C7.  Whenever stopGeofencing() returns, the persisted occupancy state   *)
(* is empty, whether or not the task was registered when it was called.    *)
(***************************************************************************)
C7_StopLeavesStateEmpty ==
  [][ (ctl.op = "stop" /\ ctl.pc # "resolved" /\ ctl'.pc = "resolved")
        => Persisted' = {} ]_vars

(***************************************************************************)
(* C8.  After stopGeofencing() followed by startGeofencing(), each running  *)
(* alone and nothing running between them, the first pass of the new       *)
(* session is a cold start: one ENTER notification for every zone          *)
(* containing the point and no EXIT notification.                          *)
(***************************************************************************)
C8_ColdStartAfterStop ==
  (InitialCheckDone /\ ctl.followsStop /\ ctl.clean)
    => /\ \A z \in InsideSet(ctl.position) :
            Count(ctl.trace, Eff("notify", z, "ENTER")) = 1
       /\ \A z \in ZoneIds : Count(ctl.trace, Eff("notify", z, "EXIT")) = 0

(***************************************************************************)
(* C9.  A denied permission makes startGeofencing() reject at once with a  *)
(* reason of its own: no later permission is requested, nothing is         *)
(* registered or torn down, no pass runs, nothing is dispatched or logged, *)
(* the occupancy state is unchanged and no foreground watch is started.    *)
(***************************************************************************)
PermissionOps ==
  << "requestForegroundPermissions", "requestBackgroundPermissions",
     "requestNotificationPermissions" >>

PermissionErrors ==
  << "Foreground location permission denied",
     "Background location permission denied. Enable Always Allow in device settings.",
     "Notification permission denied" >>

\* the calls startGeofencing has made when its n-th permission request is denied
RejectedTrace(n) ==
  [k \in 1..n |-> Eff(PermissionOps[k], "-", IF k < n THEN "granted" ELSE "denied")]

C9_PermissionDeniedFailsFast ==
  /\ \A j, k \in 1..3 : j # k => PermissionErrors[j] # PermissionErrors[k]
  /\ ctl.op = "start" =>
       LET denied == { k \in 1..Len(ctl.trace) : ctl.trace[k].event = "denied" }
       IN /\ denied # {} <=> ctl.pc = "rejected"
          /\ ctl.pc = "rejected" =>
               \E n \in 1..3 :
                 /\ ctl.err = PermissionErrors[n]
                 /\ ctl.trace = RejectedTrace(n)
                 /\ ctl.clean =>
                      /\ Persisted = ctl.snap
                      /\ registered = ctl.wasRegistered

\* the background permission is denied in a session that is already active
C9_Witness ==
  /\ ctl.op = "start" /\ ctl.pc = "rejected" /\ ctl.clean
  /\ ctl.err = PermissionErrors[2]
  /\ Len(ctl.trace) = 2
  /\ Persisted # {}
  /\ liveSubs # {}

(***************************************************************************)
(* C10.  After a startGeofencing() call rejected for a denied permission   *)
(* the background watch is not registered (isGeofencingActive() is false), *)
(* in every state from which start can be called.                          *)
(***************************************************************************)
C10_RejectedStartIsStopped ==
  (ctl.op = "start" /\ ctl.pc = "rejected") => ~isGeofencingActive

(***************************************************************************)
(* C11.  When the positioning collaborator supplies no point or region     *)
(* (the callback gets an error or data without event type or region, or    *)
(* the position query of the initial check throws), the pass dispatches no *)
(* notification, writes no occupancy state and leaves the persisted        *)
(* occupancy set as it found it.                                           *)
(***************************************************************************)
NoStateEffect(trace) ==
  /\ Notified(trace) = <<>>
  /\ Count(trace, Eff("setZoneState", "-", "-")) = 0
  /\ Count(trace, Eff("clearZoneState", "-", "-")) = 0

C11_PositioningFailureIsInert ==
  /\ (bg.pc = "done" /\ bg.identifier = "none")
       => /\ NoStateEffect(bg.trace)
          /\ bg.clean => Persisted = bg.snap
  /\ (ctl.op = "start" /\ ctl.pc \in {"s_watch", "resolved"} /\ ctl.position = 0)
       => /\ NoStateEffect(ctl.trace)
          /\ ctl.clean => Persisted = ctl.snap

\* a restart inside two zones whose position query throws
C11_Witness ==
  /\ ctl.op = "start" /\ ctl.pc = "resolved" /\ ctl.position = 0 /\ ctl.clean
  /\ Cardinality(ctl.snap) = 2
  /\ Persisted = ctl.snap

(***************************************************************************)
(* C12.  A background callback whose region identifier is not in the       *)
(* catalogue is dropped: it completes having dispatched no notification,   *)
(* appended no log entry and written no occupancy state.                   *)
(***************************************************************************)
C12_UnknownZoneIsDropped ==
  (bg.pc \notin {"idle"} /\ bg.identifier = UnknownId)
    => /\ bg.pc = "done"
       /\ bg.trace = <<>>
       /\ bg.clean => Persisted = bg.snap

\* the callback names the unknown zone while two zones are occupied
C12_Witness ==
  /\ bg.pc = "done" /\ bg.identifier = UnknownId /\ bg.clean
  /\ bg.eventType = "Enter"
  /\ Cardinality(bg.snap) = 2
  /\ Persisted = bg.snap

(***************************************************************************)
(* C17.  Starting from an absent occupancy state, every identifier in the  *)
(* persisted occupancy set, and in every list a callback is about to       *)
(* write, is the identifier of a catalogue zone, also when the platform    *)
(* reports a region that is not in the catalogue.                          *)
(***************************************************************************)
C17_OnlyCatalogueZonesPersisted ==
  /\ Persisted \subseteq ZoneIds
  /\ Range(bg.insideZones) \subseteq ZoneIds

\* an Enter callback for the unknown region has completed while zones are occupied
C17_Witness ==
  /\ bg.pc = "done" /\ bg.identifier = UnknownId /\ bg.eventType = "Enter"
  /\ Persisted # {}

(***************************************************************************)
(* C13.  Every zone state store operation is best-effort: when the         *)
(* persistence call under getZoneState, setZoneState or clearZoneState     *)
(* fails, the operation completes normally; in particular a failure is     *)
(* never thrown out of stopGeofencing().                                   *)
(***************************************************************************)
C13_StoreOperationsBestEffort ==
  /\ ctl.op = "stop" => ctl.pc # "rejected"
  /\ fg.pc # "threw" /\ bg.pc # "threw"

(***************************************************************************)
(* C14.  Whatever persistence, notification and positioning calls fail,    *)
(* the background callback, the initial position check and the foreground  *)
(* handler do not propagate an error: the callback and the handler are     *)
(* only ever at one of their steps or done, never ended by a throw, and a  *)
(* startGeofencing() that has reached its initial check is never rejected. *)
(***************************************************************************)
C14_PassesNeverThrow ==
  /\ fg.pc \in {"idle", "fg_read", "fg_notify", "fg_logget", "fg_logset", "fg_write", "done"}
  /\ bg.pc \in {"idle", "bg_errlogget", "bg_errlogset", "bg_stateget", "bg_stateset",
                "bg_notify", "bg_logget", "bg_logset", "done"}
  /\ (ctl.op = "start" /\ ctl.pc = "rejected")
       => Count(ctl.trace, Eff("getCurrentPosition", "-", "-")) = 0

\* a callback has completed although its notification could not be dispatched
C14_Witness ==
  /\ bg.pc = "done" /\ bg.eventType = "Enter" /\ bg.identifier \in ZoneIds
  /\ faults = 1
  /\ Notified(bg.trace) = <<>>
  /\ Len(Logged(bg.trace)) = 1
  /\ bg.identifier \in Persisted

(***************************************************************************)
(* C15.  The persisted event log never holds more than 50 entries and is   *)
(* ordered most-recent-first: every append (one call at a time) puts the   *)
(* new entry at the head, keeps the entries it found in their order behind *)
(* it, and, when it found 50 entries, drops exactly the last of them.      *)
(***************************************************************************)
\* the log is ordered by timestamp, newest first
MostRecentFirst ==
  \A k \in 1..(Len(logs) - 1) : logs[k].timestamp >= logs[k + 1].timestamp

\* what an append to the entries found must leave
AppendedTo(found, after) ==
  LET kept == IF Len(found) >= 50 THEN 49 ELSE Len(found)
  IN /\ Len(after) = kept + 1
     /\ \A k \in 1..kept : after[k + 1] = found[k]
     /\ after[1].timestamp >= 0

\* the step is the storage write of a logEvent call
LogWrite ==
  \/ ctl.pc = "ci_logset" /\ ctl'.pc # "ci_logset"
  \/ fg.pc = "fg_logset" /\ fg'.pc # "fg_logset"
  \/ bg.pc \in {"bg_logset", "bg_errlogset"} /\ bg'.pc = "done"

C16_ActiveReflectsRegistration ==
  (ctl.op = "isActive" /\ ctl.pc = "resolved") => ctl.result = registered

\* after a restart the handle is null and the task is still registered
C16_Witness ==
  /\ ctl.op = "isActive" /\ ctl.pc = "resolved" /\ ctl.result = TRUE
  /\ locationSubscription = 0
  /\ liveSubs = {}
  /\ Persisted # {}

(***************************************************************************)
(* C18.  getDisasterAlertContent is total over the enumerations: for each  *)
(* of the 5 categories and 4 severities an entry call returns a template   *)
(* with non-empty title, body and action text; entry calls for different   *)
(* (category, severity) pairs return different templates; and every exit   *)
(* call returns the same single template.                                  *)
(***************************************************************************)
C18_ComposerTotalAndDistinct ==
  /\ \A k \in 1..Len(alerts) :
       /\ DOMAIN alerts[k].content = {"title", "body", "actionText", "sound", "priority"}
       /\ alerts[k].content.title # ""
       /\ alerts[k].content.body # ""
       /\ alerts[k].content.actionText # ""
  /\ \A j, k \in 1..Len(alerts) :
       /\ (/\ alerts[j].isEntering /\ alerts[k].isEntering
           /\ << alerts[j].type, alerts[j].severity >> # << alerts[k].type, alerts[k].severity >>)
          => alerts[j].content # alerts[k].content
       /\ (~alerts[j].isEntering /\ ~alerts[k].isEntering)
          => alerts[j].content = alerts[k].content

\* the two entry templates whose action texts are closest
C18_Witness ==
  /\ Len(alerts) = 2
  /\ alerts[1].isEntering /\ alerts[1].type = "FIRE" /\ alerts[1].severity = "CRITICAL"
  /\ alerts[2].isEntering /\ alerts[2].type = "EVACUATION" /\ alerts[2].severity = "CRITICAL"
  /\ alerts[1].content.actionText = "LEAVE IMMEDIATELY"
  /\ alerts[1].content # alerts[2].content

\* the orderings the severity and priority claims compare by
SeverityRank == [INFO |-> 0, WARNING |-> 1, HIGH |-> 2, CRITICAL |-> 3]

PriorityRank == [DEFAULT |-> 0, HIGH |-> 1, MAX |-> 2]

\* two entry calls for one category, the first for the lower severity
EntryPair(j, k) ==
  /\ alerts[j].isEntering /\ alerts[k].isEntering
  /\ alerts[j].type = alerts[k].type
  /\ SeverityRank[alerts[j].severity] < SeverityRank[alerts[k].severity]

(***************************************************************************)
(* C19, as claimed: for every category the entry priority of a severity is *)
(* strictly higher than that of every lower severity.  HIGH and CRITICAL   *)
(* both have priority max, so this does not hold.                          *)
(***************************************************************************)
C19_StrictlyIncreasing ==
  \A j, k \in 1..Len(alerts) :
    EntryPair(j, k) => PriorityRank[alerts[j].content.priority]
                         < PriorityRank[alerts[k].content.priority]

(***************************************************************************)
(* C19, amended.  For every category the entry priority never decreases    *)
(* with severity: it is strictly higher along INFO < WARNING < HIGH, and   *)
(* CRITICAL has the priority of HIGH, which is max.                        *)
(***************************************************************************)
C19_IncreasingUpToMax ==
  \A j, k \in 1..Len(alerts) :
    EntryPair(j, k) =>
      IF alerts[j].severity = "HIGH"
      THEN /\ alerts[j].content.priority = "MAX"
           /\ alerts[k].content.priority = "MAX"
      ELSE PriorityRank[alerts[j].content.priority]
             < PriorityRank[alerts[k].content.priority]

C19_Witness ==
  /\ Len(alerts) = 2
  /\ EntryPair(1, 2)
  /\ alerts[1].severity = "HIGH" /\ alerts[2].severity = "CRITICAL"
  /\ alerts[1].content.priority = alerts[2].content.priority

(***************************************************************************)
(* C20.  In each of the three dispatch paths (geofence task, initial       *)
(* check, foreground handler) the entry alert of a CRITICAL zone of any    *)
(* category is dispatched with priority max, and the exit alert of a zone  *)
(* of any category and severity is dispatched with priority default.       *)
(***************************************************************************)
C20_CriticalMaxExitDefault ==
  \A k \in 1..Len(notifs) :
    /\ (notifs[k].event = "ENTER" /\ notifs[k].severity = "CRITICAL")
       => notifs[k].priority = "MAX"
    /\ notifs[k].event = "EXIT" => notifs[k].priority = "DEFAULT"

C20_Witness ==
  /\ Len(notifs) = 1
  /\ notifs[1].source = "initial_check"
  /\ notifs[1].event = "ENTER"
  /\ notifs[1].type = "EARTHQUAKE" /\ notifs[1].severity = "CRITICAL"
  /\ notifs[1].priority = "MAX"

\* the catalogue zones whose centre is no farther from point p than their radius
WithinRadius(p) ==
  { TEST_GEOFENCES[k].identifier :
      k \in { j \in 1..NumZones :
                calculateDistance(AllPoints[p].latitude, AllPoints[p].longitude,
                                  TEST_GEOFENCES[j].latitude, TEST_GEOFENCES[j].longitude)
                  <= TEST_GEOFENCES[j].radius } }

\* a pass from the empty occupancy state announces each zone within radius once
EntersWithinRadius(trace, p) ==
  /\ \A z \in ZoneIds :
       Count(trace, Eff("notify", z, "ENTER")) = (IF z \in WithinRadius(p) THEN 1 ELSE 0)
  /\ Len(Notified(trace)) = Cardinality(WithinRadius(p))

Pos(trace, op) ==
  LET at == { k \in 1..Len(trace) : trace[k].op = op }
  IN IF Cardinality(at) = 1 THEN CHOOSE k \in at : TRUE ELSE 0

\* the steps of a resolved startGeofencing in the order of the lifecycle
StartOrdered(trace) ==
  /\ 0 < Pos(trace, "requestForegroundPermissions")
  /\ Pos(trace, "requestForegroundPermissions") < Pos(trace, "requestBackgroundPermissions")
  /\ Pos(trace, "requestBackgroundPermissions") < Pos(trace, "requestNotificationPermissions")
  /\ \A k \in 1..Len(trace) :
       trace[k].op \in Range(PermissionOps) => trace[k].event = "granted"
  /\ Pos(trace, "requestNotificationPermissions") < Pos(trace, "startGeofencing")
  /\ Pos(trace, "startGeofencing") < Pos(trace, "getCurrentPosition")
  /\ Pos(trace, "watchPosition") = Len(trace)
  /\ \A k \in 1..Len(trace) :
       trace[k].op \in {"notify", "log", "setZoneState"}
         => Pos(trace, "getCurrentPosition") < k

\* the positions of startGeofencing inside its initial check
InitialCheckPcs == {"ci_getpos", "ci_read", "ci_notify", "ci_logget", "ci_logset", "ci_write"}

(***************************************************************************)
(* C22.  In every successful startGeofencing() the three permissions are   *)
(* granted, then the geofence task is registered, then exactly one initial *)
(* pass runs to its end, and only then is the foreground watch subscribed; *)
(* no foreground handler begins while the initial check is running.        *)
(***************************************************************************)
C22_StartLifecycleOrder ==
  [][ /\ (ctl'.op = "start" /\ ctl'.pc = "resolved") => StartOrdered(ctl'.trace)
      /\ (~InFlight(fg) /\ InFlight(fg'))
           => ~(ctl.op = "start" /\ ctl.pc \in InitialCheckPcs) ]_vars

\* the order of the steps alone
C22_StepsInOrder ==
  (ctl.op = "start" /\ ctl.pc = "resolved") => StartOrdered(ctl.trace)

\* the steps of stopGeofencing on an active session, in order
StopTrace ==
  << Eff("stopLocationWatching", "-", "-"), Eff("isTaskRegistered", "-", "-"),
     Eff("stopGeofencing", "-", "-"), Eff("clearZoneState", "-", "-") >>

(***************************************************************************)
(* C23.  stopGeofencing() on an active session unsubscribes the foreground *)
(* watch first, then unregisters the geofence task, then clears the        *)
(* occupancy state; the stored occupancy state is never removed while a    *)
(* foreground subscription is live or the geofence task is registered.     *)
(***************************************************************************)
C23_StopLifecycleOrder ==
  [][ /\ (ctl'.op = "stop" /\ ctl'.pc = "resolved" /\ ctl'.wasRegistered)
           => ctl'.trace = StopTrace
      /\ ((ctl.pc = "st_clear" /\ ctl'.pc = "resolved") \/ (zoneStore # <<>> /\ zoneStore' = <<>>))
           => (liveSubs = {} /\ locationSubscription = 0 /\ ~registered) ]_vars

\* a stop of a session with a stored occupancy set has cleared it
C23_Witness ==
  /\ ctl.op = "stop" /\ ctl.pc = "resolved" /\ ctl.wasRegistered
  /\ ctl.snap # {}
  /\ zoneStore = <<>>
  /\ liveSubs = {} /\ ~registered

StateWrites(trace) == Count(trace, Eff("setZoneState", "-", "-"))

(***************************************************************************)
(* C25.  The foreground handler performs no write of the occupancy state   *)
(* (set and lastUpdated stay as they are) when the inside set it computes  *)
(* equals the persisted set, and writes the new set otherwise; the initial *)
(* check writes the state in every pass that obtains a position, also when *)
(* the set is unchanged.                                                   *)
(***************************************************************************)
C25_WriteOnlyOnChange ==
  [][ /\ (InFlight(fg) /\ fg.snap = InsideSet(fg.location)) => zoneStore' = zoneStore
      /\ (fg.pc # "done" /\ fg'.pc = "done") =>
           IF fg'.snap = InsideSet(fg'.location)
           THEN StateWrites(fg'.trace) = 0
           ELSE /\ StateWrites(fg'.trace) = 1
                /\ Range(zoneStore'[1].insideZones) = InsideSet(fg'.location)
                /\ zoneStore'[1].lastUpdated # getZoneState.lastUpdated
      /\ (ctl.pc \in InitialCheckPcs /\ ctl'.pc = "s_watch" /\ ctl'.position # 0) =>
           /\ StateWrites(ctl'.trace) = 1
           /\ zoneStore' # zoneStore
           /\ Range(zoneStore'[1].insideZones) = InsideSet(ctl'.position) ]_vars

\* a foreground pass inside the two zones already persisted has written nothing
C25_Witness ==
  /\ fg.pc = "done"
  /\ fg.snap = InsideSet(fg.location)
  /\ Cardinality(fg.snap) = 2
  /\ StateWrites(fg.trace) = 0
  /\ Notified(fg.trace) = <<>>
  /\ Range(zoneStore[1].insideZones) = fg.snap

\* the transitions between the occupancy set prev and point p, in catalogue order
Transitions(prev, p) ==
  LET RECURSIVE Build(_)
      Build(k) ==
        IF k > NumZones THEN <<>>
        ELSE LET id == TEST_GEOFENCES[k].identifier
             IN (IF id \in InsideSet(p) \ prev
                 THEN << [g |-> TEST_GEOFENCES[k], isEntering |-> TRUE] >>
                 ELSE IF id \in prev \ InsideSet(p)
                 THEN << [g |-> TEST_GEOFENCES[k], isEntering |-> FALSE] >>
                 ELSE <<>>) \o Build(k + 1)
  IN Build(1)

\* the outcome of a point-based pass that began with prev persisted, at point
\* p, is the one fixed by prev and p alone, with the pass's own source tag
PassOutcome(trace, prev, p, source) ==
  LET t == Transitions(prev, p)
      n == Len(t)
  IN /\ Len(Notified(trace)) = n
     /\ Len(Logged(trace)) = n
     /\ Len(notifs) >= n
     /\ Len(logs) >= n
     /\ \A k \in 1..n :
          LET sent == notifs[Len(notifs) - n + k]
              entry == logs[n - k + 1]
              content == getDisasterAlertContent(t[k].g.type, t[k].g.severity,
                                                 t[k].isEntering)
              event == IF t[k].isEntering THEN "ENTER" ELSE "EXIT"
          IN /\ sent = Notification(t[k].g, event, source, content, content.priority)
             /\ [entry EXCEPT !.timestamp = 0] = TransitionEvent(t[k].g, event, "location", 0)
     /\ Persisted = InsideSet(p)

(***************************************************************************)
(* C26.  The two point-based call sites behave identically: from the same  *)
(* persisted occupancy set and at the same point checkInitialPosition and  *)
(* handleLocationUpdate dispatch the same notifications (zones,            *)
(* directions, titles, bodies, priorities, order), append the same log     *)
(* entries and leave the same occupancy set persisted; what they dispatch  *)
(* differs only in the source tag.                                         *)
(***************************************************************************)
C26_PointPassesAgree ==
  /\ fg.pc = "done"
       => PassOutcome(fg.trace, fg.snap, fg.location, "foreground_watch")
  /\ (InitialCheckDone /\ ctl.pc = "resolved")
       => PassOutcome(ctl.trace, ctl.snap, ctl.position, "initial_check")

\* an initial check that found {fire, flood} persisted, at a point in {flood, storm}
C26_Witness ==
  /\ InitialCheckDone /\ ctl.pc = "resolved"
  /\ ctl.snap = {"fire-risk-west", "flood-derby-center"}
  /\ InsideSet(ctl.position) = {"flood-derby-center", "storm-warning-east"}
  /\ Len(notifs) >= 2
  /\ notifs[Len(notifs) - 1].geofenceId = "fire-risk-west"
  /\ notifs[Len(notifs) - 1].event = "EXIT"
  /\ notifs[Len(notifs)].geofenceId = "storm-warning-east"
  /\ notifs[Len(notifs)].source = "initial_check"

(***************************************************************************)
(* C27.  Self-correction after a lost update: whatever the overlapping     *)
(* passes left persisted (two passes may have read the same old state and  *)
(* each written a different new one), the next point-based pass at point P *)
(* that runs alone leaves the persisted occupancy set equal to exactly the *)
(* catalogue zones containing P, and a further pass at P that runs alone   *)
(* then dispatches nothing.                                                *)
(***************************************************************************)
C27_SelfCorrection ==
  /\ (fg.pc = "done" /\ fg.clean) => Persisted = InsideSet(fg.location)
  /\ (InitialCheckDone /\ ctl.clean) => Persisted = InsideSet(ctl.position)
  /\ (fg.pc = "done" /\ fg.clean /\ fg.prior.point = fg.location)
       => Notified(fg.trace) = <<>>

\* how often zone z was announced in direction event since the process started
Announced(z, event) ==
  Cardinality({ k \in 1..Len(notifs) :
                  notifs[k].geofenceId = z /\ notifs[k].event = event })

\* a handler that wrote {storm} and a callback that, from the state it read
\* before, wrote {flood} over it; the next handler alone at the same point
\* announces the storm zone again and persists {storm}
C27_Witness ==
  /\ fg.pc = "done" /\ fg.clean
  /\ overlaps = 1
  /\ fg.snap = {"flood-derby-center"}
  /\ InsideSet(fg.location) = {"storm-warning-east"}
  /\ Persisted = {"storm-warning-east"}
  /\ Announced("storm-warning-east", "ENTER") = 2
  /\ Announced("storm-warning-east", "EXIT") = 0
  /\ Announced("flood-derby-center", "ENTER") = 1

(***************************************************************************)
(* C28.  Once stopGeofencing() has cleared the occupancy state, the state  *)
(* stays empty until the next start: a foreground handler or a background  *)
(* callback that was in flight when stop was called and completes after it *)
(* writes no non-empty occupancy set.                                      *)
(***************************************************************************)
C28_StateStaysEmptyAfterStop ==
  [][ ( /\ ctl.op = "stop" /\ ctl.pc = "resolved" /\ ctl.trace = StopTrace
        /\ ctl' = ctl
        /\ Persisted = {} )
        => Persisted' = {} ]_vars

(***************************************************************************)
(* C29.  The event log is append-only for the engine: every storage write  *)
(* of logEvent leaves the entries that were in the log behind the new one, *)
(* in their order (up to the eviction of the oldest at 50 entries), also   *)
(* when two passes append concurrently, so that both entries are present   *)
(* afterwards.                                                             *)
(***************************************************************************)
C29_LogAppendOnly ==
  [][ logs' # logs => AppendedTo(logs, logs') ]_vars

(***************************************************************************)
(* C30.  A failed occupancy-state write never blocks notification          *)
(* delivery: a pass (background callback, initial check, foreground        *)
(* handler) whose state write fails, and in which nothing else fails,      *)
(* dispatches every notification and appends every log entry it dispatches *)
(* and appends when the write succeeds.                                    *)
(***************************************************************************)
\* the only collaborator call that failed in the call is its state write
OnlyWriteFailed(proc) == proc.failed = {"setZoneState"}

\* the callback has sent and logged its one transition
SignalDelivered(trace, id, event) ==
  /\ Notified(trace) = << Eff("notify", id, event) >>
  /\ Logged(trace) = << Eff("log", id, event) >>
  /\ NotifsEndWith(trace)
  /\ LogsBeginWith(trace)

\* the point-based pass at p from the occupancy set prev has sent and logged
\* the diff, one ENTER per zone entered and one EXIT per zone left
DiffDelivered(trace, prev, p) ==
  LET cur == InsideSet(p)
  IN /\ \A z \in ZoneIds :
          /\ Count(trace, Eff("notify", z, "ENTER")) = (IF z \in cur \ prev THEN 1 ELSE 0)
          /\ Count(trace, Eff("log", z, "ENTER")) = (IF z \in cur \ prev THEN 1 ELSE 0)
          /\ Count(trace, Eff("notify", z, "EXIT")) = (IF z \in prev \ cur THEN 1 ELSE 0)
          /\ Count(trace, Eff("log", z, "EXIT")) = (IF z \in prev \ cur THEN 1 ELSE 0)
     /\ NotifsEndWith(trace)
     /\ LogsBeginWith(trace)

C30_FailedWriteKeepsAlerts ==
  /\ (bg.pc = "done" /\ OnlyWriteFailed(bg))
       => SignalDelivered(bg.trace, bg.identifier,
                          IF bg.eventType = "Enter" THEN "ENTER" ELSE "EXIT")
  /\ (fg.pc = "done" /\ OnlyWriteFailed(fg))
       => DiffDelivered(fg.trace, fg.snap, fg.location)
  /\ (InitialCheckDone /\ OnlyWriteFailed(ctl))
       => DiffDelivered(ctl.trace, ctl.snap, ctl.position)

\* an Enter callback whose state write failed: the zone is not persisted, the
\* alert is the last one sent
C30_Witness ==
  /\ bg.pc = "done" /\ OnlyWriteFailed(bg)
  /\ bg.eventType = "Enter" /\ bg.identifier = "flood-derby-center"
  /\ "flood-derby-center" \notin Persisted
  /\ Len(notifs) >= 1
  /\ notifs[Len(notifs)].geofenceId = "flood-derby-center"
  /\ notifs[Len(notifs)].source = "background_geofence"
  /\ Len(logs) >= 1 /\ logs[1].type = "ENTER"

(***************************************************************************)
(* C31.  When reading the occupancy state fails (or nothing is persisted), *)
(* a pass proceeds as if the previous occupancy set were empty: a          *)
(* point-based pass dispatches an ENTER for every catalogue zone           *)
(* containing the point and no EXIT, and a background EXIT callback        *)
(* performs no state write.                                                *)
(***************************************************************************)
\* the pass found no previous occupancy set: its read failed, or it ran
\* alone with nothing persisted
ReadNothing(proc) ==
  \/ proc.failed = {"getZoneState"}
  \/ proc.failed = {} /\ proc.clean /\ proc.snap = {}

C31_ReadFailureMeansEmpty ==
  /\ (fg.pc = "done" /\ ReadNothing(fg)) => DiffDelivered(fg.trace, {}, fg.location)
  /\ (InitialCheckDone /\ ReadNothing(ctl)) => DiffDelivered(ctl.trace, {}, ctl.position)
  /\ (bg.pc = "done" /\ bg.eventType = "Exit" /\ bg.identifier \in ZoneIds /\ ReadNothing(bg))
       => /\ StateWrites(bg.trace) = 0
          /\ Persisted = bg.snap

\* the handler's read failed while a zone it is in was persisted: the zone
\* is announced again
C31_Witness ==
  /\ fg.pc = "done" /\ fg.failed = {"getZoneState"}
  /\ \E z \in fg.snap : Count(fg.trace, Eff("notify", z, "ENTER")) = 1
  /\ \A z \in ZoneIds : Count(fg.trace, Eff("notify", z, "EXIT")) = 0
  /\ Persisted = InsideSet(fg.location)

(***************************************************************************)
(* C32.  One active session: after any sequence or interleaving of         *)
(* startGeofencing(), startLocationWatching(), stopLocationWatching() and  *)
(* stopGeofencing() calls, at most one foreground position subscription is *)
(* live, and a live subscription is the one held in the module's handle.   *)
(***************************************************************************)
C32_OneLiveSubscription ==
  (~InFlight(ctl) /\ lw.pc = "idle")
    => /\ Cardinality(liveSubs) <= 1
       /\ liveSubs \subseteq {locationSubscription}

(***************************************************************************)
(* C33.  The session lifecycle has two stable states: when startGeofencing  *)
(* has resolved the session is ACTIVE (task registered and a foreground    *)
(* subscription live), when stopGeofencing has resolved it is STOPPED      *)
(* (task not registered and no subscription live), and when startGeofencing *)
(* has rejected it is STOPPED, never with only one of the two sources of   *)
(* positions running.                                                      *)
(***************************************************************************)
SessionActive ==
  registered /\ locationSubscription # 0 /\ liveSubs = {locationSubscription}

SessionStopped == ~registered /\ liveSubs = {}

C33_TwoStableStates ==
  /\ (ctl.op = "start" /\ ctl.pc = "resolved") => SessionActive
  /\ (ctl.op = "stop" /\ ctl.pc = "resolved") => SessionStopped
  /\ (ctl.op = "start" /\ ctl.pc = "rejected") => SessionStopped

\* no start rejects with the task registered and no subscription live
C33_NoPartialAfterReject ==
  ~(ctl.op = "start" /\ ctl.pc = "rejected" /\ registered /\ liveSubs = {})

(***************************************************************************)
(* C34.  A log entry lacks zone category and severity only when the error  *)
(* path of the background callback wrote it: every entry appended for a    *)
(* transition (any of the three paths) carries the zone's category,        *)
(* severity and description, and is paired with exactly one notification   *)
(* dispatched for the same zone and direction in the same pass.            *)
(***************************************************************************)
\* the entries the engine appended, each either the error entry of the
\* callback or the entry of a transition of a catalogue zone
EntriesCarryCategory ==
  \A k \in 1..Len(logs) :
    logs[k].timestamp >= 0 =>
      \/ logs[k] = ErrorEvent(logs[k].timestamp)
      \/ \E j \in 1..NumZones :
           /\ logs[k].disasterType = TEST_GEOFENCES[j].type
           /\ logs[k].severity = TEST_GEOFENCES[j].severity
           /\ logs[k].zoneName = TEST_GEOFENCES[j].description

\* every transition the call logged, it announced once
LoggedIsNotified(trace) ==
  \A k \in 1..Len(trace) :
    (trace[k].op = "log" /\ trace[k].zone \in ZoneIds)
      => Count(trace, Eff("notify", trace[k].zone, trace[k].event)) = 1

\* no transition was announced twice by the call
NotifiedOnce(trace) ==
  \A k \in 1..Len(trace) :
    trace[k].op = "notify" => Count(trace, trace[k]) = 1

NoDuplicates(list) ==
  \A j, k \in 1..Len(list) : list[j] = list[k] => j = k

\* the callback is about to read a list that its signal does not change
SignalChangesNothing ==
  /\ bg.pc = "bg_stateget"
  /\ \/ bg.eventType = "Enter" /\ bg.identifier \in Persisted
     \/ bg.eventType = "Exit" /\ bg.identifier \notin Persisted

C35_NoDuplicateIds ==
  [][ /\ NoDuplicates(getZoneState.insideZones)'
      /\ (SignalChangesNothing /\ bg'.pc # bg.pc)
           => (bg'.pc = "bg_notify" /\ zoneStore' = zoneStore) ]_vars

\* a second ENTER for the flood zone: announced, nothing written
C35_Witness ==
  /\ bg.pc = "done" /\ bg.eventType = "Enter"
  /\ bg.identifier = "flood-derby-center"
  /\ "flood-derby-center" \in bg.snap
  /\ StateWrites(bg.trace) = 0
  /\ Count(bg.trace, Eff("notify", "flood-derby-center", "ENTER")) = 1
  /\ Persisted = bg.snap

(***************************************************************************)
(* C36.  Within one pass the side effects are ordered: in a point-based    *)
(* pass each zone's notification is dispatched before that zone's log      *)
(* entry is appended, zones are processed in catalogue order, and the      *)
(* single occupancy-state write happens only after all notifications and   *)
(* log entries of the pass; in the background callback the occupancy-state *)
(* update happens first, then the notification, then the log entry.        *)
(***************************************************************************)
\* the notifications, log entries and state writes of a call, in order
SideEffects(trace) ==
  SelectSeq(trace, LAMBDA e : e.op \in {"notify", "log", "setZoneState"})

\* the place of a zone in the catalogue
ZoneRank(id) == CHOOSE k \in 1..NumZones : TEST_GEOFENCES[k].identifier = id

PointPassOrdered(trace) ==
  LET t == SideEffects(trace)
  IN \A k \in 1..Len(t) :
       /\ t[k].op = "log" => (k > 1 /\ t[k - 1] = Eff("notify", t[k].zone, t[k].event))
       /\ t[k].op = "notify"
            => \A j \in 1..(k - 1) :
                 t[j].op = "notify" => ZoneRank(t[j].zone) < ZoneRank(t[k].zone)
       /\ t[k].op = "setZoneState" => k = Len(t)

\* the place of a side effect in the callback
StepRank(op) == CASE op = "setZoneState" -> 1 [] op = "notify" -> 2 [] OTHER -> 3

TaskOrdered(trace) ==
  LET t == SideEffects(trace)
  IN \A j, k \in 1..Len(t) : j < k => StepRank(t[j].op) < StepRank(t[k].op)

C36_SideEffectsOrdered ==
  /\ ctl.op = "start" => PointPassOrdered(ctl.trace)
  /\ PointPassOrdered(fg.trace)
  /\ TaskOrdered(bg.trace)

\* a handler with two transitions: notification, log entry, notification,
\* log entry, then the write
C36_Witness ==
  /\ fg.pc = "done"
  /\ Len(SideEffects(fg.trace)) = 5
  /\ SideEffects(fg.trace)[1].op = "notify"
  /\ SideEffects(fg.trace)[2].op = "log"
  /\ SideEffects(fg.trace)[3].op = "notify"
  /\ SideEffects(fg.trace)[5].op = "setZoneState"

====
